---- MODULE Spec2Model ----
(***************************************************************************)
(* A model of the terminal fractal viewer: src/main.cpp (the main build,   *)
(* and the build with 3 fractals that follows it in the file) and          *)
(* src/unnamed/part_000 (the first, single-fractal build).                 *)
(*                                                                         *)
(* The specifications share the module's variables:                        *)
(*   SpecEval     one call of a per-point evaluator, one loop iteration    *)
(*                per step (mandelbrotPoint ... newton3Point);             *)
(*   SpecQuant    the two quantizers, getPixelColor and getPixelChar,      *)
(*                swept over the iteration counts the evaluators return;   *)
(*   SpecMap      the viewport state and the raster drivers' mapping of a  *)
(*                cell to a plane point (live and export);                 *)
(*   SpecWorkers  one live pass with its rows split over workers;          *)
(*   SpecView     SpecMap's viewer, or the zoom keys on a rounded scale;   *)
(*   SpecFirst    one cell of the first build's renderMandelbrot;          *)
(*   SpecMenu     selectFractalMenu in the two builds that have a menu.    *)
(*                                                                         *)
(* Numbers.  The evaluators' doubles are modelled as binary floating-point *)
(* numbers of IEEE binary32's shape: a 24-bit significand, exponents from  *)
(* -126 to 127, overflow to an infinity, underflow to zero, and a NaN that *)
(* fails every comparison.  (The model checker's integers are 32 bits      *)
(* wide, which is what a 24-bit significand fits in.)  Zero is unsigned.   *)
(* The zoom keys' product (MulGradual) keeps the subnormals as well.       *)
(* The drivers' coordinate formulas are compared in exact rational         *)
(* arithmetic, so that two formulas are equal in the model iff they denote *)
(* the same real number.                                                   *)
(***************************************************************************)
EXTENDS Integers, Sequences, FiniteSets, TLC

----------------------------------------------------------------------------
(* The floating-point double.  A finite nonzero value is                   *)
(* sgn * man * 2^(exp - 23) with ManMin <= man < 2 * ManMin.               *)

ManMin == 2^23
ManLim == 2^24
HalfWord == 2^12
ExpMin == 2 - 2^7
ExpMax == 2^7 - 1
GuardBits == 2 * 3

Zero == [cls |-> "fin", sgn |-> 0, man |-> 0, exp |-> 0]
PInf == [cls |-> "inf", sgn |-> 1, man |-> 0, exp |-> 0]
NInf == [cls |-> "inf", sgn |-> -1, man |-> 0, exp |-> 0]
NaN == [cls |-> "nan", sgn |-> 0, man |-> 0, exp |-> 0]

IsFin(a) == a.cls = "fin"
IsInf(a) == a.cls = "inf"
IsNaN(a) == a.cls = "nan"
\* a == 0; false for NaN and the infinities.
IsZero(a) == a.cls = "fin" /\ a.sgn = 0

AbsI(n) == IF n < 0 THEN -n ELSE n
SgnI(n) == IF n < 0 THEN -1 ELSE IF n > 0 THEN 1 ELSE 0
MaxI(m, n) == IF m >= n THEN m ELSE n

\* The number of bits of m >= 0.
RECURSIVE BitLen(_)
BitLen(m) ==
    IF m >= ManLim THEN 24 + BitLen(m \div ManLim)
    ELSE IF m >= HalfWord THEN 12 + BitLen(m \div HalfWord)
    ELSE IF m >= 64 THEN 6 + BitLen(m \div 64)
    ELSE IF m >= 8 THEN 3 + BitLen(m \div 8)
    ELSE IF m >= 4 THEN 3
    ELSE IF m >= 2 THEN 2
    ELSE m

\* The double s * man * 2^(ex - 23) of a significand in ManMin..ManLim-1:
\* an infinity above the exponent range, zero below it.
Ranged(s, man, ex) ==
    IF ex > ExpMax THEN (IF s > 0 THEN PInf ELSE NInf)
    ELSE IF ex < ExpMin THEN Zero
    ELSE [cls |-> "fin", sgn |-> s, man |-> man, exp |-> ex]

\* A rounding that carried into bit 24 renormalises.
Carried(s, rm, ex) ==
    Ranged(s, IF rm = ManLim THEN ManMin ELSE rm, IF rm = ManLim THEN ex + 1 ELSE ex)

\* m, of len bits, brought to 24 bits: shifted up, or rounded down.
Rounded(s, m, e, len) ==
    Carried(s,
            IF len <= 24 THEN m * 2^(24 - len)
            ELSE (m + 2^(len - 25)) \div 2^(len - 24),
            e - 24 + len)

\* The double nearest to s * m * 2^(e - 23), for an integer 0 <= m < 2^31.
Pack(s, m, e) == IF m = 0 \/ s = 0 THEN Zero ELSE Rounded(s, m, e, BitLen(m))

\* The double nearest to k * 2^(e - 23), for an integer k.
PackInt(k, e) == Pack(SgnI(k), AbsI(k), e)

\* The double of an int.
Whole(k) == PackInt(k, 23)

Neg(a) == [cls |-> a.cls, sgn |-> -a.sgn, man |-> a.man, exp |-> a.exp]
Fabs(a) == [cls |-> a.cls, sgn |-> AbsI(a.sgn), man |-> a.man, exp |-> a.exp]

\* a's significand with GuardBits more bits, at exponent e >= a.exp.
Aligned(a, e) ==
    IF e - a.exp > 30 THEN 0 ELSE a.sgn * ((a.man * 2^GuardBits) \div 2^(e - a.exp))

\* The sum of two finite nonzero doubles, aligned at the larger exponent e.
AddAt(a, b, e) == PackInt(Aligned(a, e) + Aligned(b, e), e - GuardBits)

Add(a, b) ==
    IF IsNaN(a) \/ IsNaN(b) THEN NaN
    ELSE IF IsInf(a) /\ IsInf(b) THEN (IF a.sgn = b.sgn THEN a ELSE NaN)
    ELSE IF IsInf(a) THEN a
    ELSE IF IsInf(b) THEN b
    ELSE IF IsZero(a) THEN b
    ELSE IF IsZero(b) THEN a
    ELSE AddAt(a, b, MaxI(a.exp, b.exp))

Sub(a, b) == Add(a, Neg(b))

\* The top 26 bits of the 48-bit product of two significands.
ManProduct(m, n) ==
    LET mh == m \div HalfWord
        ml == m % HalfWord
        nh == n \div HalfWord
        nl == n % HalfWord
    IN  4 * mh * nh + ((mh * nl + ml * nh + ((ml * nl) \div HalfWord)) \div 2^10)

Mul(a, b) ==
    IF IsNaN(a) \/ IsNaN(b) THEN NaN
    ELSE IF IsInf(a) \/ IsInf(b)
         THEN (IF a.sgn * b.sgn = 0 THEN NaN
               ELSE IF a.sgn * b.sgn > 0 THEN PInf ELSE NInf)
    ELSE IF IsZero(a) \/ IsZero(b) THEN Zero
    ELSE Pack(a.sgn * b.sgn, ManProduct(a.man, b.man), a.exp + b.exp - 1)

\* rounds more base-64 digits of r / n, appended to the quotient q.
RECURSIVE LongDiv(_, _, _, _)
LongDiv(r, n, q, rounds) ==
    IF rounds = 0 THEN q
    ELSE LongDiv((r * 64) % n, n, q * 64 + ((r * 64) \div n), rounds - 1)

\* floor(m * 2^24 / n) for two significands.
ManQuotient(m, n) == LongDiv(m % n, n, m \div n, 4)

\* IEEE division: x/0 is an infinity (NaN for 0/0), never a trap.
Div(a, b) ==
    IF IsNaN(a) \/ IsNaN(b) THEN NaN
    ELSE IF IsInf(a) /\ IsInf(b) THEN NaN
    ELSE IF IsInf(a) THEN (IF a.sgn * b.sgn < 0 THEN NInf ELSE PInf)
    ELSE IF IsInf(b) THEN Zero
    ELSE IF IsZero(b)
         THEN (IF IsZero(a) THEN NaN ELSE IF a.sgn > 0 THEN PInf ELSE NInf)
    ELSE IF IsZero(a) THEN Zero
    ELSE Pack(a.sgn * b.sgn, ManQuotient(a.man, b.man), a.exp - b.exp - 1)

\* a < b; false when either is NaN.
Lt(a, b) ==
    /\ ~IsNaN(a)
    /\ ~IsNaN(b)
    /\ IF IsInf(a) \/ IsInf(b)
       THEN (IF IsInf(a) /\ IsInf(b) THEN a.sgn < b.sgn
             ELSE IF IsInf(a) THEN a.sgn < 0
             ELSE b.sgn > 0)
       ELSE IF a.sgn # b.sgn THEN a.sgn < b.sgn
       ELSE IF a.sgn = 0 THEN FALSE
       ELSE IF a.sgn > 0
            THEN a.exp < b.exp \/ (a.exp = b.exp /\ a.man < b.man)
       ELSE a.exp > b.exp \/ (a.exp = b.exp /\ a.man > b.man)

\* A decimal literal n/d, e.g. Dec(27, 100) for 0.27.
Dec(n, d) == Div(Whole(n), Whole(d))

\* a * 2^k.
Scale2(a, k) == IF IsFin(a) /\ ~IsZero(a) THEN Ranged(a.sgn, a.man, a.exp + k) ELSE a

RECURSIVE Heron(_, _, _)
Heron(a, s, n) == IF n = 0 THEN s ELSE Heron(a, Scale2(Add(s, Div(a, s)), -1), n - 1)

\* sqrt: five Heron steps from the power of two below the root.
Sqrt(a) ==
    IF IsNaN(a) \/ a.sgn < 0 THEN NaN
    ELSE IF IsInf(a) \/ IsZero(a) THEN a
    ELSE Heron(a, Ranged(1, ManMin, a.exp \div 2), 5)

\* The integer nearest to a finite a with |a| < 2^30.
ToInt(a) ==
    IF IsZero(a) \/ a.exp < -1 THEN 0
    ELSE IF a.exp >= 23 THEN a.sgn * a.man * 2^(a.exp - 23)
    ELSE a.sgn * ((a.man + 2^(22 - a.exp)) \div 2^(23 - a.exp))

----------------------------------------------------------------------------
(* libm's sin, cos, sinh and cosh: argument reduction and a Taylor         *)
(* polynomial, in the format's arithmetic.                                 *)

\* The doubles nearest to pi, pi/2, 2 pi and e.
Pi == [cls |-> "fin", sgn |-> 1, man |-> 13176795, exp |-> 1]
HalfPi == [cls |-> "fin", sgn |-> 1, man |-> 13176795, exp |-> 0]
TwoPi == [cls |-> "fin", sgn |-> 1, man |-> 13176795, exp |-> 2]
E == [cls |-> "fin", sgn |-> 1, man |-> 11401300, exp |-> 1]
One == [cls |-> "fin", sgn |-> 1, man |-> ManMin, exp |-> 0]

\* x(1 - x^2/(2*3) (1 - x^2/(4*5) (1 - x^2/(6*7) (1 - x^2/(8*9) (1 - x^2/(10*11))))))
RECURSIVE SinTerms(_, _)
SinTerms(x2, k) ==
    IF k > 10 THEN One
    ELSE Sub(One, Mul(Div(x2, Whole(k * (k + 1))), SinTerms(x2, k + 2)))

SinPoly(x) == Mul(x, SinTerms(Mul(x, x), 2))

\* r folded from [-pi, pi] to [-pi/2, pi/2], where sin(r) = sin(pi - r).
Folded(r) ==
    IF Lt(HalfPi, r) THEN Sub(Pi, r)
    ELSE IF Lt(r, Neg(HalfPi)) THEN Sub(Neg(Pi), r) ELSE r

\* sin of a finite a: reduce to [-pi, pi], fold to [-pi/2, pi/2].  Beyond
\* 2^30 the reduction has no bits left and the result is 0.
SinFin(a) ==
    IF IsZero(a) THEN Zero
    ELSE IF a.exp >= 30 THEN Zero
    ELSE SinPoly(Folded(Sub(a, Mul(Whole(ToInt(Div(a, TwoPi))), TwoPi))))

Sin(a) == IF IsFin(a) THEN SinFin(a) ELSE NaN
Cos(a) == IF IsFin(a) THEN SinFin(Add(a, HalfPi)) ELSE NaN

RECURSIVE TimesE(_, _)
TimesE(v, n) == IF n = 0 \/ IsInf(v) THEN v ELSE TimesE(Mul(v, E), n - 1)

RECURSIVE ExpTerms(_, _)
\* 1 + f/k (1 + f/(k+1) (... (1 + f/12))).
ExpTerms(f, k) ==
    IF k > 12 THEN One
    ELSE Add(One, Mul(Div(f, Whole(k)), ExpTerms(f, k + 1)))

\* e^a = e^k * e^(a - k) for an integer 0 <= k <= a.
ExpSplit(a, k) == TimesE(ExpTerms(Sub(a, Whole(k)), 1), k)

\* e^a for a finite a >= 0, k being floor(a).
ExpPos(a) ==
    IF IsZero(a) THEN One
    ELSE IF a.exp >= 8 THEN PInf
    ELSE ExpSplit(a, MaxI(0, ToInt(Sub(a, Scale2(One, -1)))))

Exp(a) ==
    IF IsNaN(a) THEN NaN
    ELSE IF IsInf(a) THEN (IF a.sgn > 0 THEN PInf ELSE Zero)
    ELSE IF a.sgn >= 0 THEN ExpPos(a)
    ELSE Div(One, ExpPos(Neg(a)))

Cosh(a) == Scale2(Add(Exp(a), Exp(Neg(a))), -1)
Sinh(a) == Scale2(Sub(Exp(a), Exp(Neg(a))), -1)

\* The doubles nearest to ln 2 and sqrt 2.
Ln2 == [cls |-> "fin", sgn |-> 1, man |-> 11629080, exp |-> -1]
Sqrt2 == [cls |-> "fin", sgn |-> 1, man |-> 11863283, exp |-> 0]

RECURSIVE AtanhTerms(_, _)
\* 1/k + u^2 (1/(k+2) + u^2 (... 1/11)).
AtanhTerms(u2, k) ==
    IF k > 11 THEN Zero
    ELSE Add(Div(One, Whole(k)), Mul(u2, AtanhTerms(u2, k + 2)))

\* 2 atanh(u) = ln((1 + u)/(1 - u)).
TwiceAtanh(u) == Scale2(Mul(u, AtanhTerms(Mul(u, u), 1)), 1)

\* ln(m * 2^e) for 1/sqrt 2 <= m < sqrt 2.
LnSplit(m, e) == Add(Mul(Whole(e), Ln2), TwiceAtanh(Div(Sub(m, One), Add(m, One))))

\* ln of a finite a > 0.
Ln(a) ==
    IF Lt(Sqrt2, Ranged(1, a.man, 0)) THEN LnSplit(Ranged(1, a.man, -1), a.exp + 1)
    ELSE LnSplit(Ranged(1, a.man, 0), a.exp)

\* pow(t, p) for a finite t >= 0 and p > 0.
Pow(t, p) == IF IsZero(t) THEN Zero ELSE Exp(Mul(p, Ln(t)))

\* (int)a: the integer part of a finite a with |a| < 2^30.
Trunc(a) ==
    IF IsZero(a) \/ a.exp < 0 THEN 0
    ELSE IF a.exp >= 23 THEN a.sgn * a.man * 2^(a.exp - 23)
    ELSE a.sgn * (a.man \div 2^(23 - a.exp))

----------------------------------------------------------------------------
(* Program state.                                                          *)

VARIABLES
    \* one evaluator call (SpecEval)
    pc,          \* "idle", "escape" (in an escape-time loop), "newton", "done",
                 \* "saved" (the export driver has written the cell's pixel)
    kind,        \* the evaluator the driver called
    fn,          \* the function whose loop is running (mandelbrotInvPoint delegates)
    argx, argy,  \* the arguments of the call
    cx, cy,      \* the loop's constant c
    zx, zy, zx2, zy2,
    iteration,   \* the escape loops' counter, the Newton loops' i
    ret,         \* the returned value, once pc = "done"
    bodies,      \* loop bodies executed by this call
    divZero,     \* whether this call divided by a zero
    juliaCx, juliaCy,  \* fractalSettings[JULIA].juliaCx, .juliaCy
    pixel,       \* the <<r, g, b>> saveNewtonBasins wrote for the cell, <<>> before
    \* the quantizers (SpecQuant)
    currentPalette,
    iter,        \* the count handed to getPixelColor and getPixelChar
    color,       \* getPixelColor(iter)
    index,       \* the ramp index getPixelChar(iter) computed
    glyph,       \* getPixelChar(iter)
    peak,        \* per channel and for index, the largest value at a smaller iter
    \* the viewport and the raster drivers (SpecMap)
    mpc,         \* "menu", "render", "input", "save", "stopped"
    currentFractal,
    settings,    \* fractalSettings: centerX, centerY, scale per fractal
    aspectRatio,
    width, height,
    scaleX, scaleY,
    moves,       \* zoom and pan keys handled so far
    imageWidth, imageHeight,
    cellX, cellY,      \* the loops' x and y
    liveCx, liveCy,    \* the point the live driver computed for its last cell
    saveCx, saveCy,    \* the point the export driver computed for its last cell
    trap,        \* whether an integer division by zero was executed
    written,     \* the cells <<x, y>> the running pass has written, in order
    \* one live pass split over workers (SpecWorkers)
    driver,      \* "renderOtherFractals" or "renderNewtonBasins"
    results,     \* what the evaluator returns for the point of each cell
    wpc,         \* per worker, the statement of the loop body it is at
    wx, wy,      \* per worker, its loops' x and y
    wcx, wcy,    \* per worker, its cx and cy (the column and the row they are of)
    wresult,     \* per worker, its iteration or color
    wpixel,      \* per worker, its pixel
    attrs,       \* the colour pair among stdscr's current attributes
    surface,     \* per cell of stdscr, its <<glyph, colour pair>>
    \* the zoom keys on the rounded scale (SpecView)
    zoomPc,      \* "menu", "render", "input"
    zoomFractal, \* currentFractal
    zoomScale,   \* fractalSettings[k].scale as a double, per fractal
    zoomFirst,   \* the first zoom key pressed, "" before it
    zoomBack,    \* the zoom keys pressed since that were the other key
    \* one cell of the first build's renderMandelbrot (SpecFirst)
    firstPc,     \* "loop", "glyph" (the loop has ended), "drawn"
    firstC,      \* c, as <<re, im>>
    firstZ,      \* z, as <<re, im>>
    firstIteration,
    firstBodies, \* loop bodies executed for this cell
    firstIndex,  \* getPixelChar's index
    firstPixel,  \* pixel
    charsSize,   \* sizeof(chars)
    \* selectFractalMenu of the two menu builds (SpecMenu)
    build,       \* "main" (11 fractals) or "three" (3 fractals)
    menuPc,      \* "menu", "viewer", "stopped"
    selected,
    menuFractal, \* currentFractal, as the enumerator's value
    menuWidth,   \* width, which KEY_RESIZE refreshes
    strayed      \* whether fractalSettings[] or fractalNames[] was indexed outside

evalVars == <<pc, kind, fn, argx, argy, cx, cy, zx, zy, zx2, zy2, iteration,
              ret, bodies, divZero, juliaCx, juliaCy, pixel>>

quantVars == <<currentPalette, iter, color, index, glyph, peak>>

mapVars == <<mpc, currentFractal, settings, aspectRatio, width, height, scaleX,
             scaleY, moves, imageWidth, imageHeight, cellX, cellY, liveCx, liveCy,
             saveCx, saveCy, trap, written>>

workVars == <<driver, results, wpc, wx, wy, wcx, wcy, wresult, wpixel, attrs, surface>>

\* The variables of the specifications that follow the three above.
zoomVars == <<zoomPc, zoomFractal, zoomScale, zoomFirst, zoomBack>>

firstVars == <<firstPc, firstC, firstZ, firstIteration, firstBodies, firstIndex,
               firstPixel, charsSize>>

menuVars == <<build, menuPc, selected, menuFractal, menuWidth, strayed>>

sideVars == <<workVars, zoomVars, firstVars, menuVars>>

vars == <<evalVars, quantVars, mapVars, sideVars>>

maxiter == 300
max_newton_iter == 50

EscapeKinds == {"MANDELBROT", "MANDELBROT_SIN", "MANDELBROT_INV", "TRICORN",
                "JULIA", "BURNING_SHIP", "CELTIC", "BUFFALO"}
NewtonKinds == {"NEWTON_1", "NEWTON_2", "NEWTON_3"}
FractalType == EscapeKinds \cup NewtonKinds

----------------------------------------------------------------------------
(* The escape-time evaluators.                                             *)

\* ESCAPE_RADIUS_SQUARED of mandelbrotSinPoint, 4. elsewhere.
EscapeRadius2(f) == IF f = "MANDELBROT_SIN" THEN Whole(400) ELSE Whole(4)

\* The loops' condition.
EscapeGuardOff(f, x2, y2, it) == Lt(Add(x2, y2), EscapeRadius2(f)) /\ it <= maxiter
EscapeGuard(f, x2, y2, it) == Lt(Add(x2, y2), EscapeRadius2(f)) /\ it < maxiter

\* The new zy of one loop body, from the old zx and zy.
NextZy(f, x, y, c) ==
    CASE f = "MANDELBROT"     -> Add(Mul(Mul(Whole(2), x), y), c)
      [] f = "JULIA"          -> Add(Mul(Mul(Whole(2), x), y), c)
      [] f = "TRICORN"        -> Add(Mul(Mul(Whole(-2), x), y), c)
      [] f = "BURNING_SHIP"   -> Add(Mul(Whole(2), Fabs(Mul(x, y))), c)
      [] f = "CELTIC"         -> Add(Mul(Mul(Whole(2), x), y), c)
      [] f = "BUFFALO"        -> Add(Mul(Whole(2), Fabs(Mul(x, y))), c)
      [] f = "MANDELBROT_SIN" -> Add(Mul(Cos(x), Sinh(y)), c)

\* The new zx of one loop body, from the old zx, zy and their squares.
NextZx(f, x, y, x2, y2, c) ==
    CASE f = "MANDELBROT"     -> Add(Sub(x2, y2), c)
      [] f = "JULIA"          -> Add(Sub(x2, y2), c)
      [] f = "TRICORN"        -> Add(Sub(x2, y2), c)
      [] f = "BURNING_SHIP"   -> Add(Sub(x2, y2), c)
      [] f = "CELTIC"         -> Add(Fabs(Sub(x2, y2)), c)
      [] f = "BUFFALO"        -> Add(Fabs(Sub(x2, y2)), c)
      [] f = "MANDELBROT_SIN" -> Add(Mul(Sin(x), Cosh(y)), c)

\* r = sqrt(cx*cx + cy*cy) of mandelbrotInvPoint.
InvR(x, y) == Sqrt(Add(Mul(x, x), Mul(y, y)))
\* Its guard r < 1e-10.
InvBound == Div(Dec(1, 100000), Whole(100000))
InvGuardOff(r) == FALSE
InvGuard(r) == Lt(r, InvBound)
InvCx(x, r) == Div(x, Mul(r, r))
InvCy(y, r) == Div(Neg(y), Mul(r, r))

\* An escape loop's variables before its first test.
LoopStart(x, y) == [zx |-> x, zy |-> y, zx2 |-> Mul(x, x), zy2 |-> Mul(y, y), iteration |-> 0]

\* The loop's variables after the body has run on nx, ny.
LoopNext(nx, ny, it) ==
    [zx |-> nx, zy |-> ny, zx2 |-> Mul(nx, nx), zy2 |-> Mul(ny, ny), iteration |-> it + 1]

\* One test of the loop's condition and, when it holds, one body.
LoopStep(f, s, c1, c2) ==
    IF EscapeGuard(f, s.zx2, s.zy2, s.iteration)
    THEN LoopNext(NextZx(f, s.zx, s.zy, s.zx2, s.zy2, c1), NextZy(f, s.zx, s.zy, c2),
                  s.iteration)
    ELSE s

\* n tests of the loop's condition, the loop being over at the first that
\* fails; LoopResume goes on from the variables s a first part left.
RECURSIVE LoopRun(_, _, _, _, _)
LoopResume(f, s, c1, c2, n) ==
    IF s.iteration >= maxiter THEN s ELSE LoopRun(f, s, c1, c2, n)
LoopRun(f, s, c1, c2, n) ==
    IF n = 0 THEN s
    ELSE IF n = 1 THEN LoopStep(f, s, c1, c2)
    ELSE LoopResume(f, LoopRun(f, s, c1, c2, n \div 2), c1, c2, n - (n \div 2))

\* mandelbrotPoint(x, y) as a function, for comparing a delegated call.
mandelbrotPoint(x, y) ==
    LoopRun("MANDELBROT", LoopStart(Zero, Zero), x, y, maxiter).iteration

----------------------------------------------------------------------------
(* The Newton evaluators.                                                  *)

\* roots[]: the known roots of each polynomial, as <<re, im>>, the
\* literals cut to the nine digits an int holds.
Roots1 ==
    << <<One, Zero>>,
       <<Dec(-1, 2), Div(Sqrt(Whole(3)), Whole(2))>>,
       <<Dec(-1, 2), Neg(Div(Sqrt(Whole(3)), Whole(2)))>> >>
Roots2 ==
    << <<Dec(-1769292354, 1000000000), Zero>>,
       <<Dec(884646177, 1000000000), Dec(589742805, 1000000000)>>,
       <<Dec(884646177, 1000000000), Dec(-589742805, 1000000000)>> >>
Roots3 ==
    << <<Dec(808730600, 1000000000), Zero>>,
       <<Dec(464912202, 1000000000), Dec(1071473840, 1000000000)>>,
       <<Dec(464912202, 1000000000), Dec(-1071473840, 1000000000)>>,
       <<Dec(-869277502, 1000000000), Dec(388269407, 1000000000)>>,
       <<Dec(-869277502, 1000000000), Dec(-388269407, 1000000000)>> >>
Roots(f) ==
    CASE f = "NEWTON_1" -> Roots1
      [] f = "NEWTON_2" -> Roots2
      [] f = "NEWTON_3" -> Roots3

tolerance == Dec(1, 1000000)

\* The bound of the loop over the roots: 3, 3, 5.
RootCount(f) == IF f = "NEWTON_3" THEN 5 ELSE 3

\* x4, y4, x2y2 from x2, y2, xy.
Squares(x, y, x2, y2, xy) ==
    [zx |-> x, zy |-> y, x2 |-> x2, y2 |-> y2, xy |-> xy,
     x4 |-> Mul(x2, x2), y4 |-> Mul(y2, y2), x2y2 |-> Mul(xy, xy)]

\* The monomials the loop body computes first.
Monomials(x, y) == Squares(x, y, Mul(x, x), Mul(y, y), Mul(x, y))

\* f(z) and f'(z) of one Newton step, in real and imaginary parts.
PolyOf(f, m) ==
    CASE f = "NEWTON_1" ->
           [fx  |-> Sub(Mul(m.zx, Sub(m.x2, Mul(Whole(3), m.y2))), One),
            fy  |-> Mul(m.zy, Sub(Mul(Whole(3), m.x2), m.y2)),
            fpx |-> Mul(Whole(3), Sub(m.x2, m.y2)),
            fpy |-> Mul(Whole(6), m.xy)]
      [] f = "NEWTON_2" ->
           [fx  |-> Add(Mul(m.zx, Sub(Sub(m.x2, Mul(Whole(3), m.y2)), Whole(2))),
                        Whole(2)),
            fy  |-> Mul(m.zy, Sub(Sub(Mul(Whole(3), m.x2), m.y2), Whole(2))),
            fpx |-> Sub(Mul(Whole(3), Sub(m.x2, m.y2)), Whole(2)),
            fpy |-> Mul(Whole(6), m.xy)]
      [] f = "NEWTON_3" ->
           [fx  |-> Sub(Sub(Add(Mul(m.zx, Add(Sub(m.x4, Mul(Whole(10), m.x2y2)),
                                               Mul(Whole(5), m.y4))),
                                m.x2), m.y2), One),
            fy  |-> Add(Mul(m.zy, Add(Sub(Mul(Whole(5), m.x4), Mul(Whole(10), m.x2y2)),
                                      m.y4)),
                        Mul(Whole(2), m.xy)),
            fpx |-> Add(Add(Sub(Mul(Whole(5), m.x4), Mul(Whole(30), m.x2y2)),
                            Mul(Whole(5), m.y4)),
                        Mul(Whole(2), m.zx)),
            fpy |-> Add(Mul(Mul(Whole(20), m.xy), Sub(m.x2, m.y2)),
                        Mul(Whole(2), m.zy))]

Poly(f, x, y) == PolyOf(f, Monomials(x, y))

\* denom = fpx*fpx + fpy*fpy.
Denom(p) == Add(Mul(p.fpx, p.fpx), Mul(p.fpy, p.fpy))

\* if (denom == 0) break;
SingularOff(d) == FALSE
Singular(d) == IsZero(d)

\* The step z -= f(z)/f'(z).
NewtonZx(x, p, denom) == Sub(x, Div(Add(Mul(p.fx, p.fpx), Mul(p.fy, p.fpy)), denom))
NewtonZy(y, p, denom) == Sub(y, Div(Sub(Mul(p.fy, p.fpx), Mul(p.fx, p.fpy)), denom))

\* dx_root*dx_root + dy_root*dy_root < tolerance*tolerance.
Within(dx_root, dy_root) ==
    Lt(Add(Mul(dx_root, dx_root), Mul(dy_root, dy_root)), Mul(tolerance, tolerance))

\* The test of the inner loop, for a root <<re, im>>.
NearRoot(x, y, root) == Within(Sub(x, root[1]), Sub(y, root[2]))

\* The inner loop over the roots: the 1-based index of the first root within
\* the tolerance, 0 when there is none.
RECURSIVE MatchFrom(_, _, _, _)
MatchFrom(f, x, y, j) ==
    IF j > RootCount(f) THEN 0
    ELSE IF NearRoot(x, y, Roots(f)[j]) THEN j
    ELSE MatchFrom(f, x, y, j + 1)

\* return j + 1, for the 0-based j of the code.
ReturnedOff(j) == IF j = 0 THEN 0 ELSE j + 1
Returned(j) == j
MatchedRoot(f, x, y) == Returned(MatchFrom(f, x, y, 1))

----------------------------------------------------------------------------
(* SpecEval: one evaluator call at a time, on a point of the plane.        *)

GridHalf == 1

\* The coordinates a driver hands to an evaluator: multiples of 1/2 around
\* the origin, and the non-finite doubles an extreme viewport produces.
Coords == {Dec(k, 2) : k \in -GridHalf..GridHalf} \cup {PInf, NaN}

\* Coordinates on either side of mandelbrotInvPoint's bound: 1e-11 and 1e-9.
NearZero == {Div(Dec(1, 100000), Whole(1000000)), Dec(1, 1000000000)}
InvCoords == Coords \cup NearZero

\* The constructor's Julia parameter and the one the prompt recommends.
JuliaParams == { <<Dec(-7, 10), Dec(27, 100)>>,
                 <<Dec(-4, 10), Dec(6, 10)>> }

\* No evaluator call is in progress.
EvalIdle ==
    /\ pc = "idle"
    /\ kind = "MANDELBROT"
    /\ fn = "MANDELBROT"
    /\ argx = Zero /\ argy = Zero
    /\ cx = Zero /\ cy = Zero
    /\ zx = Zero /\ zy = Zero /\ zx2 = Zero /\ zy2 = Zero
    /\ iteration = 0
    /\ ret = 0
    /\ bodies = 0
    /\ divZero = FALSE
    /\ pixel = <<>>

\* The constructor's fractalSettings[JULIA].juliaCx, .juliaCy.
EvalParked ==
    /\ EvalIdle
    /\ juliaCx = Dec(-7, 10)
    /\ juliaCy = Dec(27, 100)

\* The quantizers' variables while another specification runs.
QuantParked ==
    /\ currentPalette = "GRAYSCALE"
    /\ iter = 0
    /\ color = <<0, 0, 0>>
    /\ index = 0
    /\ glyph = " "
    /\ peak = <<0, 0, 0, 0>>

\* The viewport's variables while another specification runs.
MapParked ==
    /\ mpc = "stopped"
    /\ currentFractal = "MANDELBROT"
    /\ settings = <<>>
    /\ aspectRatio = <<1, 1>>
    /\ width = 0 /\ height = 0
    /\ scaleX = <<0, 1>> /\ scaleY = <<0, 1>>
    /\ moves = 0
    /\ imageWidth = 0 /\ imageHeight = 0
    /\ cellX = 0 /\ cellY = 0
    /\ liveCx = <<0, 1>> /\ liveCy = <<0, 1>>
    /\ saveCx = <<0, 1>> /\ saveCy = <<0, 1>>
    /\ trap = FALSE
    /\ written = <<>>

\* The workers' variables while another specification runs.
WorkParked ==
    /\ driver = ""
    /\ results = <<>>
    /\ wpc = <<>>
    /\ wx = <<>> /\ wy = <<>>
    /\ wcx = <<>> /\ wcy = <<>>
    /\ wresult = <<>>
    /\ wpixel = <<>>
    /\ attrs = 0
    /\ surface = <<>>

\* The later specifications' variables while another specification runs.
\* The rounded zoom's variables while another specification runs.
ZoomParked ==
    /\ zoomPc = "parked"
    /\ zoomFractal = "MANDELBROT"
    /\ zoomScale = <<>>
    /\ zoomFirst = ""
    /\ zoomBack = 0

\* The first build's variables while another specification runs.
FirstParked ==
    /\ firstPc = "parked"
    /\ firstC = <<>>
    /\ firstZ = <<>>
    /\ firstIteration = 0
    /\ firstBodies = 0
    /\ firstIndex = 0
    /\ firstPixel = " "
    /\ charsSize = 0

\* The menus' variables while another specification runs.
MenuParked ==
    /\ build = ""
    /\ menuPc = "parked"
    /\ selected = 0
    /\ menuFractal = 0
    /\ menuWidth = 0
    /\ strayed = FALSE

SideParked == WorkParked /\ ZoomParked /\ FirstParked /\ MenuParked

InitEval == EvalParked /\ QuantParked /\ MapParked /\ SideParked

\* setJuliaParams, between two calls.
SetJuliaParams(p) ==
    /\ pc = "idle"
    /\ juliaCx' = p[1]
    /\ juliaCy' = p[2]
    /\ UNCHANGED <<pc, kind, fn, argx, argy, cx, cy, zx, zy, zx2, zy2, iteration,
                   ret, bodies, divZero, pixel>>
    /\ UNCHANGED <<quantVars, mapVars, sideVars>>

\* Entry of mandelbrotPoint, mandelbrotSinPoint, tricornPoint, burningShipPoint,
\* celticPoint, buffaloPoint: z = 0, c = the point.
CallEscape(k, x, y) ==
    /\ pc = "idle"
    /\ k \in EscapeKinds \ {"JULIA", "MANDELBROT_INV"}
    /\ pc' = "escape"
    /\ kind' = k /\ fn' = k
    /\ argx' = x /\ argy' = y
    /\ cx' = x /\ cy' = y
    /\ zx' = Zero /\ zy' = Zero /\ zx2' = Zero /\ zy2' = Zero
    /\ iteration' = 0
    /\ bodies' = 0
    /\ UNCHANGED <<ret, divZero, juliaCx, juliaCy, pixel>>
    /\ UNCHANGED <<quantVars, mapVars, sideVars>>

\* Entry of juliaPoint: z = the point, c = the Julia parameter.
CallJulia(x, y) ==
    /\ pc = "idle"
    /\ pc' = "escape"
    /\ kind' = "JULIA" /\ fn' = "JULIA"
    /\ argx' = x /\ argy' = y
    /\ cx' = juliaCx /\ cy' = juliaCy
    /\ zx' = x /\ zy' = y /\ zx2' = Mul(x, x) /\ zy2' = Mul(y, y)
    /\ iteration' = 0
    /\ bodies' = 0
    /\ UNCHANGED <<ret, divZero, juliaCx, juliaCy, pixel>>
    /\ UNCHANGED <<quantVars, mapVars, sideVars>>

\* The rest of mandelbrotInvPoint once r is known, up to its call of
\* mandelbrotPoint.
InvBody(x, y, r) ==
    IF InvGuard(r)
    THEN /\ pc' = "done"
         /\ ret' = maxiter
         /\ fn' = "MANDELBROT_INV"
         /\ cx' = x /\ cy' = y
         /\ UNCHANGED divZero
    ELSE /\ pc' = "escape"
         /\ fn' = "MANDELBROT"
         /\ cx' = InvCx(x, r)
         /\ cy' = InvCy(y, r)
         /\ divZero' = IsZero(Mul(r, r))
         /\ UNCHANGED ret

\* Entry of mandelbrotInvPoint.
CallInv(x, y) ==
    /\ pc = "idle"
    /\ kind' = "MANDELBROT_INV"
    /\ argx' = x /\ argy' = y
    /\ bodies' = 0
    /\ iteration' = 0
    /\ zx' = Zero /\ zy' = Zero /\ zx2' = Zero /\ zy2' = Zero
    /\ InvBody(x, y, InvR(x, y))
    /\ UNCHANGED <<juliaCx, juliaCy, pixel>>
    /\ UNCHANGED <<quantVars, mapVars, sideVars>>

\* Entry of newton1Point, newton2Point, newton3Point: z = the point.
CallNewton(k, x, y) ==
    /\ pc = "idle"
    /\ k \in NewtonKinds
    /\ pc' = "newton"
    /\ kind' = k /\ fn' = k
    /\ argx' = x /\ argy' = y
    /\ zx' = x /\ zy' = y
    /\ iteration' = 0
    /\ bodies' = 0
    /\ UNCHANGED <<cx, cy, zx2, zy2, ret, divZero, juliaCx, juliaCy, pixel>>
    /\ UNCHANGED <<quantVars, mapVars, sideVars>>

\* The assignments of an escape loop's body, nx and ny being the new z.
EscapeBody(nx, ny) ==
    /\ zy' = ny
    /\ zx' = nx
    /\ zx2' = Mul(nx, nx)
    /\ zy2' = Mul(ny, ny)
    /\ iteration' = iteration + 1

\* One pass through an escape loop's body.
EscapeStep ==
    /\ pc = "escape"
    /\ EscapeGuard(fn, zx2, zy2, iteration)
    /\ EscapeBody(NextZx(fn, zx, zy, zx2, zy2, cx), NextZy(fn, zx, zy, cy))
    /\ bodies' = bodies + 1
    /\ UNCHANGED <<pc, kind, fn, argx, argy, cx, cy, ret, divZero, juliaCx, juliaCy,
                   pixel>>
    /\ UNCHANGED <<quantVars, mapVars, sideVars>>

\* The escape loop's condition fails: return iteration.
EscapeReturn ==
    /\ pc = "escape"
    /\ ~EscapeGuard(fn, zx2, zy2, iteration)
    /\ pc' = "done"
    /\ ret' = iteration
    /\ UNCHANGED <<kind, fn, argx, argy, cx, cy, zx, zy, zx2, zy2, iteration,
                   bodies, divZero, juliaCx, juliaCy, pixel>>
    /\ UNCHANGED <<quantVars, mapVars, sideVars>>

\* for (int i = 0; i < max_newton_iter; ++i)
NewtonGuardOff(it) == TRUE
NewtonGuard(it) == it < max_newton_iter

\* The end of the body, m being what the search for a root near z found.
NewtonFound(m) ==
    IF m # 0
    THEN /\ pc' = "done"
         /\ ret' = m
         /\ UNCHANGED iteration
    ELSE /\ iteration' = iteration + 1
         /\ UNCHANGED <<pc, ret>>

\* The update of z to (nx, ny), and the search.
NewtonMove(nx, ny) ==
    /\ zx' = nx
    /\ zy' = ny
    /\ NewtonFound(MatchedRoot(fn, nx, ny))

\* The body after denom is known: the singularity guard, the step, the
\* search for a root within the tolerance.
NewtonBody(p, denom) ==
    IF Singular(denom)
    THEN /\ pc' = "done"
         /\ ret' = 0
         /\ UNCHANGED <<zx, zy, iteration, divZero>>
    ELSE /\ divZero' = (divZero \/ IsZero(denom))
         /\ NewtonMove(NewtonZx(zx, p, denom), NewtonZy(zy, p, denom))

NewtonPoly(p) == NewtonBody(p, Denom(p))

\* One pass through a Newton loop's body.
NewtonStep ==
    /\ pc = "newton"
    /\ NewtonGuard(iteration)
    /\ bodies' = bodies + 1
    /\ NewtonPoly(Poly(fn, zx, zy))
    /\ UNCHANGED <<kind, fn, argx, argy, cx, cy, zx2, zy2, juliaCx, juliaCy, pixel>>
    /\ UNCHANGED <<quantVars, mapVars, sideVars>>

\* The Newton loop ran out of steps: return 0.
NewtonExhausted ==
    /\ pc = "newton"
    /\ ~NewtonGuard(iteration)
    /\ pc' = "done"
    /\ ret' = 0
    /\ UNCHANGED <<kind, fn, argx, argy, cx, cy, zx, zy, zx2, zy2, iteration,
                   bodies, divZero, juliaCx, juliaCy, pixel>>
    /\ UNCHANGED <<quantVars, mapVars, sideVars>>

\* colors[18] of saveNewtonBasins: six colours, r, g, b each.
colors == <<205, 0, 126, 239, 106, 0, 242, 205, 0, 121, 195, 0, 25, 97, 174, 97, 0, 125>>

\* if (color >= 0 && color < 6)
InTableOff(c) == c >= 1 /\ c < 6
InTable(c) == c >= 0 /\ c < 6

\* The <<r, g, b>> saveNewtonBasins writes for the evaluator's result c
\* (the code stores it as b, g, r).
NewtonPixel(c) ==
    IF InTable(c) THEN <<colors[3 * c + 1], colors[3 * c + 2], colors[3 * c + 3]>>
    ELSE <<0, 0, 0>>

\* saveNewtonBasins writes the cell's pixel from the result of its call.
SavePixel ==
    /\ pc = "done"
    /\ kind \in NewtonKinds
    /\ pc' = "saved"
    /\ pixel' = NewtonPixel(ret)
    /\ UNCHANGED <<kind, fn, argx, argy, cx, cy, zx, zy, zx2, zy2, iteration, ret,
                   bodies, divZero, juliaCx, juliaCy>>
    /\ UNCHANGED <<quantVars, mapVars, sideVars>>

\* The driver is done with the cell; the next cell's call starts afresh.
TakeResult ==
    /\ pc \in {"done", "saved"}
    /\ pc' = "idle"
    /\ kind' = "MANDELBROT"
    /\ fn' = "MANDELBROT"
    /\ argx' = Zero /\ argy' = Zero
    /\ cx' = Zero /\ cy' = Zero
    /\ zx' = Zero /\ zy' = Zero /\ zx2' = Zero /\ zy2' = Zero
    /\ iteration' = 0
    /\ ret' = 0
    /\ bodies' = 0
    /\ divZero' = FALSE
    /\ pixel' = <<>>
    /\ UNCHANGED <<juliaCx, juliaCy>>
    /\ UNCHANGED <<quantVars, mapVars, sideVars>>

EvalRun == EscapeStep \/ EscapeReturn \/ NewtonStep \/ NewtonExhausted

NextEval ==
    \/ \E p \in JuliaParams : SetJuliaParams(p)
    \/ \E k \in FractalType, x \in Coords, y \in Coords : CallEscape(k, x, y)
    \/ \E x \in Coords, y \in Coords : CallJulia(x, y)
    \/ \E x \in InvCoords, y \in InvCoords : CallInv(x, y)
    \/ \E k \in FractalType, x \in Coords, y \in Coords : CallNewton(k, x, y)
    \/ EscapeStep
    \/ EscapeReturn
    \/ NewtonStep
    \/ NewtonExhausted
    \/ SavePixel
    \/ TakeResult

SpecEval == InitEval /\ [][NextEval]_vars

\* A call that has started has a next step, and each step changes bodies or
\* pc: ENABLED <<EvalRun>>_vars is this state predicate.
Running == pc \in {"escape", "newton"}

\* WF_vars(EvalRun), with its ENABLED written as Running.
EvalRunFair == []<>(~Running) \/ []<><<EvalRun>>_vars

\* The evaluators are straight-line loops of one thread: a call that has
\* started keeps running, and a loop whose condition fails is left.
SpecEvalFair == SpecEval /\ EvalRunFair /\ WF_vars(NewtonExhausted)

----------------------------------------------------------------------------
(* Properties of the evaluators.                                           *)

\* The largest value the evaluator called may return: the iteration budget,
\* or the number of roots.
RangeTop(k) == IF k \in NewtonKinds THEN RootCount(k) ELSE maxiter

\* The number of loop bodies the evaluator called may execute.
BodyBudget(k) == IF k \in NewtonKinds THEN max_newton_iter ELSE maxiter

\* C1: whatever the point, the value an evaluator returns is in its range:
\* 0..maxiter for the eight escape-time evaluators, 0..3 for newton1Point and
\* newton2Point, 0..5 for newton3Point.
ReturnInRange == pc = "done" => ret \in 0..RangeTop(kind)

\* A call of newton3Point that returns the last root's index.
ReturnInRangeWitness == pc = "done" /\ kind = "NEWTON_3" /\ ret = 5

\* C2: every call returns, an escape-time evaluator after at most maxiter
\* loop bodies and a Newton evaluator after at most 50 steps.
Terminates ==
    /\ [](bodies <= BodyBudget(kind))
    /\ Running ~> (pc = "done")

\* A call that used its whole budget of bodies before it returned.
TerminatesWitness == pc = "done" /\ bodies = BodyBudget(kind)

\* C5: a Newton step that finds denom = 0 ends the call with 0 and leaves z
\* as it was; the seed (0, 0) does so at once for z^3 - 1 and z^5 + z^2 - 1.
SingularStops ==
    /\ [][(pc = "newton" /\ NewtonGuard(iteration) /\ IsZero(Denom(Poly(fn, zx, zy))))
            => (pc' = "done" /\ ret' = 0 /\ zx' = zx /\ zy' = zy)]_vars
    /\ []((pc = "done" /\ kind \in {"NEWTON_1", "NEWTON_3"}
                       /\ argx = Zero /\ argy = Zero)
            => (ret = 0 /\ bodies = 1 /\ zx = Zero /\ zy = Zero))

\* newton3Point has returned from the seed (0, 0).
SingularStopsWitness ==
    pc = "done" /\ kind = "NEWTON_3" /\ argx = Zero /\ argy = Zero /\ bodies = 1

\* C6: mandelbrotInvPoint returns maxiter, having divided nothing, when
\* r < 1e-10; otherwise it returns mandelbrotPoint(cx/r^2, -cy/r^2); it never
\* divides by zero.
InvDelegates ==
    kind = "MANDELBROT_INV" =>
        /\ ~divZero
        /\ pc = "done" =>
             IF Lt(InvR(argx, argy), InvBound)
             THEN ret = maxiter /\ bodies = 0
             ELSE ret = mandelbrotPoint(InvCx(argx, InvR(argx, argy)),
                                        InvCy(argy, InvR(argx, argy)))

\* A call on a point just outside the bound, whose inverse escapes at once.
InvDelegatesWitness ==
    /\ pc = "done" /\ kind = "MANDELBROT_INV"
    /\ argx \in NearZero /\ argy = Zero
    /\ ret = 1

\* Entry j of the colour table, j = 0 for its first three numbers.
TableEntry(j) == <<colors[3 * j + 1], colors[3 * j + 2], colors[3 * j + 3]>>

\* C4 as stated: the export writes black for the result 0 and, for a root
\* index 1..N, a table colour that no other root index has.
BlackForNoRoot ==
    pc = "saved" =>
        /\ ret = 0 => pixel = <<0, 0, 0>>
        /\ ret \in 1..RootCount(kind) =>
             /\ \E j \in 0..5 : pixel = TableEntry(j)
             /\ \A j \in 1..RootCount(kind) : j # ret => NewtonPixel(j) # pixel

\* C4: the export writes entry k of the colour table for every result k,
\* 0 included (entry 0 is (205, 0, 126), not black), and the entries of
\* different results differ.
TableColourPerResult ==
    pc = "saved" =>
        /\ pixel = TableEntry(ret)
        /\ pixel # <<0, 0, 0>>
        /\ \A j \in 0..RootCount(kind) : j # ret => TableEntry(j) # pixel

\* The export has written the pixel of a cell whose call found no root.
TableColourPerResultWitness ==
    pc = "saved" /\ ret = 0 /\ bodies = max_newton_iter /\ pixel = <<205, 0, 126>>

----------------------------------------------------------------------------
(* SpecQuant: getPixelColor and getPixelChar, on the counts 0, 1, 2, ...   *)
(* in turn, under each palette.                                            *)

Palettes == <<"GRAYSCALE", "FIRE", "OCEAN", "FOREST">>

\* const char* chars = " .-:=*#%@";
chars == <<" ", ".", "-", ":", "=", "*", "#", "%", "@">>
\* strlen(chars)
paletteSize == Len(chars)

\* double gamma = 2.2;
gamma == Dec(22, 10)

\* t = (double)iter / maxiter
NormalizedOff(it) == Div(Whole(maxiter - it), Whole(maxiter))
Normalized(it) == Div(Whole(it), Whole(maxiter))

\* t = pow(t, 1./gamma)
Corrected(it) == Pow(Normalized(it), Div(One, gamma))

\* min(255, v)
Min255Off(v) == v
Min255(v) == IF v > 255 THEN 255 ELSE v

\* (int)(t * 255*f), which C reads as (t * 255) * f.
Channel(t, f) == Trunc(Mul(Mul(t, Whole(255)), f))

\* The switch over currentPalette.
Shade(palette, t) ==
    CASE palette = "GRAYSCALE" ->
           <<Trunc(Mul(t, Whole(255))), Trunc(Mul(t, Whole(255))),
             Trunc(Mul(t, Whole(255)))>>
      [] palette = "FIRE" ->
           <<Min255(Channel(t, Dec(15, 10))), Channel(t, Dec(8, 10)),
             Channel(t, Dec(2, 10))>>
      [] palette = "OCEAN" ->
           <<Channel(t, Dec(2, 10)), Channel(t, Dec(5, 10)),
             Min255(Channel(t, Dec(12, 10)))>>
      [] palette = "FOREST" ->
           <<Channel(t, Dec(3, 10)), Min255(Channel(t, Dec(12, 10))),
             Channel(t, Dec(25, 100))>>

\* getPixelColor(iter) under a palette, as <<r, g, b>>.
getPixelColor(it, palette) ==
    IF it >= maxiter THEN <<0, 0, 0>> ELSE Shade(palette, Corrected(it))

\* chars[paletteSize-1], as an index.
InteriorIndexOff(n) == 0
InteriorIndex(n) == n - 1

\* The index getPixelChar(iter) reads chars at.
RampIndex(it) ==
    IF it >= maxiter THEN InteriorIndex(paletteSize)
    ELSE Trunc(Mul(Corrected(it), Whole(paletteSize - 1)))

\* chars[index]; outside the ramp the read is of memory that is not the
\* ramp's, "?" here.
CharAt(i) == IF i \in 0..(paletteSize - 1) THEN chars[i + 1] ELSE "?"

getPixelChar(it) == CharAt(RampIndex(it))

\* The counts swept go this far past maxiter.
QuantOver == 2

\* The larger of two ints.
Larger(m, n) == IF m >= n THEN m ELSE n

\* The quantizers applied to the count it under palette p; top is the
\* per-channel peak of the smaller counts.
Quantized(it, p, top) ==
    /\ currentPalette' = p
    /\ iter' = it
    /\ color' = getPixelColor(it, p)
    /\ index' = RampIndex(it)
    /\ glyph' = getPixelChar(it)
    /\ peak' = top

InitQuant ==
    /\ EvalParked
    /\ MapParked
    /\ SideParked
    /\ currentPalette = "GRAYSCALE"
    /\ iter = 0
    /\ color = getPixelColor(0, "GRAYSCALE")
    /\ index = RampIndex(0)
    /\ glyph = getPixelChar(0)
    /\ peak = <<0, 0, 0, 0>>

\* imageSave sets currentPalette; the sweep starts again from 0.
SelectPalette(p) ==
    /\ p # currentPalette
    /\ Quantized(0, p, <<0, 0, 0, 0>>)
    /\ UNCHANGED <<evalVars, mapVars, sideVars>>

\* The next count of the sweep.
QuantizeNext ==
    /\ iter < maxiter + QuantOver
    /\ Quantized(iter + 1, currentPalette,
                 <<Larger(peak[1], color[1]), Larger(peak[2], color[2]),
                   Larger(peak[3], color[3]), Larger(peak[4], index)>>)
    /\ UNCHANGED <<evalVars, mapVars, sideVars>>

NextQuant ==
    \/ \E i \in 1..Len(Palettes) : SelectPalette(Palettes[i])
    \/ QuantizeNext

SpecQuant == InitQuant /\ [][NextQuant]_vars

----------------------------------------------------------------------------
(* Properties of the quantizers.                                           *)

\* C7: under every palette and for every count, each channel of
\* getPixelColor is in 0..255, and the colour is (0, 0, 0) from maxiter on.
ChannelsInRange ==
    /\ \A c \in 1..3 : color[c] \in 0..255
    /\ iter >= maxiter => color = <<0, 0, 0>>

\* FIRE's red channel has been cut to 255 by min.
ChannelsInRangeWitness ==
    currentPalette = "FIRE" /\ iter < maxiter /\ color[1] = 255 /\ color[2] < 204

\* C8 as stated: over the counts 0..maxiter, no channel is smaller than it
\* was at a smaller count.
MonotoneToMaxiter == iter <= maxiter => \A c \in 1..3 : color[c] >= peak[c]

\* C8: over the counts 0..maxiter-1 no channel is smaller than it was at a
\* smaller count; at maxiter every channel falls below its peak, to 0.
MonotoneBelowMaxiter ==
    /\ iter < maxiter => \A c \in 1..3 : color[c] >= peak[c]
    /\ iter = maxiter => \A c \in 1..3 : color[c] = 0 /\ peak[c] > 0

\* The last count before maxiter, every channel at its peak.
MonotoneBelowMaxiterWitness ==
    iter = maxiter - 1 /\ currentPalette = "FOREST" /\ color[3] >= peak[3] /\ peak[3] > 0

\* C9: getPixelChar returns '@' from maxiter on; below maxiter its index is
\* inside the ramp, is not smaller than at a smaller count, and the glyph is
\* the ramp's character at that index.
GlyphOnRamp ==
    /\ iter >= maxiter => glyph = "@"
    /\ iter < maxiter =>
         /\ index \in 0..(paletteSize - 1)
         /\ index >= peak[4]
         /\ glyph = chars[index + 1]

\* The interior glyph, after a sweep that reached the ramp's last but one.
GlyphOnRampWitness == iter = maxiter /\ glyph = "@" /\ peak[4] = paletteSize - 2

----------------------------------------------------------------------------
(* Exact rationals <<n, d>>, d > 0, in lowest terms: the real numbers the  *)
(* drivers' coordinate formulas denote.                                    *)

RECURSIVE GCD(_, _)
GCD(m, n) == IF n = 0 THEN m ELSE GCD(n, m % n)

Reduced(n, d, g) == <<n \div g, d \div g>>
\* n/d in lowest terms, for d > 0.
RNorm(n, d) == Reduced(n, d, GCD(AbsI(n), d))
RInt(k) == <<k, 1>>
RNeg(a) == <<-a[1], a[2]>>
\* a + b over the least common denominator, g being the denominators' gcd.
AddOver(a, b, g) == RNorm(a[1] * (b[2] \div g) + b[1] * (a[2] \div g), (a[2] \div g) * b[2])
RAdd(a, b) == AddOver(a, b, GCD(a[2], b[2]))
RSub(a, b) == RAdd(a, RNeg(b))
\* a * b, the common factors g1 of a's numerator and b's denominator and g2
\* of b's numerator and a's denominator taken out first.
MulOver(a, b, g1, g2) ==
    RNorm((a[1] \div g1) * (b[1] \div g2), (a[2] \div g2) * (b[2] \div g1))
RMul(a, b) == MulOver(a, b, GCD(AbsI(a[1]), b[2]), GCD(AbsI(b[1]), a[2]))
\* a <= b
RLe(a, b) == a[1] * b[2] <= b[1] * a[2]

----------------------------------------------------------------------------
(* SpecMap: the viewport, the keys that change it, and the two drivers'    *)
(* loops over the cells.                                                   *)

\* The fractals the viewer is switched between here: one that
\* renderOtherFractals draws and one that renderNewtonBasins draws.
MapKinds == {"MANDELBROT", "NEWTON_2"}

\* The constructor's fractalSettings.
InitialSettings ==
    [k \in MapKinds |->
        IF k = "MANDELBROT"
        THEN [centerX |-> RNorm(-1, 2), centerY |-> RInt(0), scale |-> RNorm(15, 1000)]
        ELSE [centerX |-> RInt(0), centerY |-> RInt(0), scale |-> RNorm(1, 100)]]

\* The terminal is MaxSide or MaxSide - 1 cells wide and high.
MaxSide == 4
Sides == (MaxSide - 1)..MaxSide

\* What the user may type for the aspect ratio: the ends of the accepted
\* interval, 1, the default, and two values outside the interval.
RatiosTyped == {RNorm(1, 2), RInt(1), RNorm(211, 100), RInt(3), RNorm(2, 5), RInt(4)}

\* What the user may type for the image's width and height.
ImageSides == {0} \cup Sides

\* Zoom, pan and aspect ratio keys handled before the model stops taking
\* them.
MaxMoves == 1

\* width/2.
HalfOff(n) == RInt(n \div 2)
Half(n) == RNorm(n, 2)

\* (c - size/2.) * step + centre: the live drivers' cx for x = c, and cy.
LivePoint(c, size, step, centre) ==
    RAdd(RMul(RSub(RInt(c), Half(size)), step), centre)

\* scX = width * settings.scale
ScXOff(w, scale) == RMul(RInt(w + 1), scale)
ScX(w, scale) == RMul(RInt(w), scale)
\* scY = width * imageHeight / imageWidth * settings.scale, the quotient an
\* int's (the operands are not negative here).
ScY(w, ih, iw, scale) == RMul(RInt((w * ih) \div iw), scale)

\* (static_cast<double>(c) / n - 0.5) * sc + centre: saveOtherFractals' cx
\* for x = c, and cy.
SavePoint(c, n, sc, centre) ==
    RAdd(RMul(RSub(RNorm(c, n), RNorm(1, 2)), sc), centre)

\* saveNewtonBasins' cx: (x / imageWidth - 0.5) * width * scale + centerX.
NewtonSaveCx(c, w, iw, scale, centre) ==
    RAdd(RMul(RMul(RSub(RNorm(c, iw), RNorm(1, 2)), RInt(w)), scale), centre)

\* saveNewtonBasins' cy: (y / imageHeight - 0.5) * width * imageHeight /
\* imageWidth * scale + centerY, all in doubles.
NewtonSaveCy(c, w, ih, iw, scale, centre) ==
    RAdd(RMul(RMul(RMul(RMul(RSub(RNorm(c, ih), RNorm(1, 2)), RInt(w)), RInt(ih)),
                   RNorm(1, iw)), scale), centre)

\* fractalSettings[currentFractal]
Current == settings[currentFractal]

\* The constructor, initialize() and the start of run(): the menu is open.
InitMap ==
    /\ EvalParked
    /\ QuantParked
    /\ SideParked
    /\ mpc = "menu"
    /\ currentFractal = "MANDELBROT"
    /\ settings = InitialSettings
    /\ aspectRatio = RNorm(211, 100)
    /\ width \in Sides /\ height \in Sides
    /\ scaleX = InitialSettings["MANDELBROT"].scale
    /\ scaleY = RMul(InitialSettings["MANDELBROT"].scale, RNorm(211, 100))
    /\ moves = 0
    /\ imageWidth = 0 /\ imageHeight = 0
    /\ cellX = 0 /\ cellY = 0
    /\ liveCx = RInt(0) /\ liveCy = RInt(0)
    /\ saveCx = RInt(0) /\ saveCy = RInt(0)
    /\ trap = FALSE
    /\ written = <<>>

\* selectFractalMenu: the arrows and Enter choose a fractal.
MenuSelect(k) ==
    /\ mpc = "menu"
    /\ currentFractal' = k
    /\ mpc' = "frame"
    /\ UNCHANGED <<settings, aspectRatio, width, height, scaleX, scaleY, moves,
                   imageWidth, imageHeight, cellX, cellY, liveCx, liveCy, saveCx,
                   saveCy, trap, written>>
    /\ UNCHANGED <<evalVars, quantVars, sideVars>>

\* KEY_RESIZE, in the menu or the viewer: getmaxyx.
Resize(w, h) ==
    /\ mpc \in {"menu", "input"}
    /\ width' = w
    /\ height' = h
    /\ mpc' = IF mpc = "menu" THEN "menu" ELSE "frame"
    /\ UNCHANGED <<currentFractal, settings, aspectRatio, scaleX, scaleY, moves,
                   imageWidth, imageHeight, cellX, cellY, liveCx, liveCy, saveCx,
                   saveCy, trap, written>>
    /\ UNCHANGED <<evalVars, quantVars, sideVars>>

\* 'q', in the menu or the viewer.
Quit ==
    /\ mpc \in {"menu", "input"}
    /\ mpc' = "stopped"
    /\ UNCHANGED <<currentFractal, settings, aspectRatio, width, height, scaleX,
                   scaleY, moves, imageWidth, imageHeight, cellX, cellY, liveCx,
                   liveCy, saveCx, saveCy, trap, written>>
    /\ UNCHANGED <<evalVars, quantVars, sideVars>>

\* ++x
NextColumnOff(x) == x + 2
NextColumn(x) == x + 1

\* After the cell (x, y) of a w by h raster both loops end: neither ++x nor
\* ++y passes its test.
LastCell(x, y, w, h) == ~(NextColumn(x) < w) /\ ~(y + 1 < h)

\* The body of the live drivers' loops for x = c, y = r; mvaddch(y, x, ...)
\* ends it.
LiveCell(c, r, sx, sy) ==
    /\ cellX' = c
    /\ cellY' = r
    /\ written' = Append(written, <<c, r>>)
    /\ liveCx' = LivePoint(c, width, sx, Current.centerX)
    /\ liveCy' = LivePoint(r, height, sy, Current.centerY)

\* updateScales, then the first cell of the frame.
RenderScaled(sx, sy) ==
    /\ scaleX' = sx
    /\ scaleY' = sy
    /\ LiveCell(0, 0, sx, sy)

\* The start of renderOtherFractals or renderNewtonBasins.
RenderFirst ==
    /\ mpc = "frame"
    /\ mpc' = "render"
    /\ RenderScaled(Current.scale, RMul(Current.scale, aspectRatio))
    /\ UNCHANGED <<currentFractal, settings, aspectRatio, width, height, moves,
                   imageWidth, imageHeight, saveCx, saveCy, trap>>
    /\ UNCHANGED <<evalVars, quantVars, sideVars>>

\* The next cell, row by row.
RenderNext ==
    /\ mpc = "render"
    /\ ~LastCell(cellX, cellY, width, height)
    /\ IF NextColumn(cellX) < width
       THEN LiveCell(NextColumn(cellX), cellY, scaleX, scaleY)
       ELSE LiveCell(0, cellY + 1, scaleX, scaleY)
    /\ UNCHANGED <<mpc, currentFractal, settings, aspectRatio, width, height, scaleX,
                   scaleY, moves, imageWidth, imageHeight, saveCx, saveCy, trap>>
    /\ UNCHANGED <<evalVars, quantVars, sideVars>>

\* A driver returns: its locals x, y, cx and cy are gone, and the pass is
\* over.
LocalsGone ==
    /\ written' = <<>>
    /\ cellX' = 0 /\ cellY' = 0
    /\ liveCx' = RInt(0) /\ liveCy' = RInt(0)
    /\ saveCx' = RInt(0) /\ saveCy' = RInt(0)

\* The loops are over: handleInput waits for a key.
RenderDone ==
    /\ mpc = "render"
    /\ LastCell(cellX, cellY, width, height)
    /\ mpc' = "input"
    /\ LocalsGone
    /\ UNCHANGED <<currentFractal, settings, aspectRatio, width, height, scaleX,
                   scaleY, moves, imageWidth, imageHeight, trap>>
    /\ UNCHANGED <<evalVars, quantVars, sideVars>>

\* The signed fractions of the pan keys: the arrows' 0.01, WASD's 0.1.
PanSteps == {RNorm(-1, 100), RNorm(1, 100), RNorm(-1, 10), RNorm(1, 10)}

\* '+' and '-': scale *= 0.8, scale *= 1.2.
ZoomFactors == {RNorm(8, 10), RNorm(12, 10)}

\* What a key of the viewer leaves alone besides the settings.
KeyFrame ==
    /\ mpc' = "frame"
    /\ UNCHANGED <<currentFractal, width, height, scaleX, scaleY, imageWidth,
                   imageHeight, cellX, cellY, liveCx, liveCy, saveCx, saveCy, trap,
                   written>>
    /\ UNCHANGED <<evalVars, quantVars, sideVars>>

Zoom(f) ==
    /\ mpc = "input"
    /\ moves < MaxMoves
    /\ moves' = moves + 1
    /\ settings' = [settings EXCEPT ![currentFractal].scale = RMul(Current.scale, f)]
    /\ UNCHANGED aspectRatio
    /\ KeyFrame

\* KEY_LEFT, KEY_RIGHT, 'a', 'd': centerX -= or += 0.01 or 0.1 of
\* scale * width.
PanX(d) ==
    /\ mpc = "input"
    /\ moves < MaxMoves
    /\ moves' = moves + 1
    /\ settings' = [settings EXCEPT ![currentFractal].centerX =
                       RAdd(Current.centerX, RMul(RMul(d, Current.scale), RInt(width)))]
    /\ UNCHANGED aspectRatio
    /\ KeyFrame

\* KEY_UP, KEY_DOWN, 'w', 's': centerY -= or += 0.01 or 0.1 of
\* scale * height * aspectRatio.
PanY(d) ==
    /\ mpc = "input"
    /\ moves < MaxMoves
    /\ moves' = moves + 1
    /\ settings' = [settings EXCEPT ![currentFractal].centerY =
                       RAdd(Current.centerY,
                            RMul(RMul(RMul(d, Current.scale), RInt(height)), aspectRatio))]
    /\ UNCHANGED aspectRatio
    /\ KeyFrame

\* 'r': setAspectRatio keeps what is typed when it is in [0.5, 3.0].
SetAspectRatio(newRatio) ==
    /\ mpc = "input"
    /\ moves < MaxMoves
    /\ moves' = moves + 1
    /\ aspectRatio' = IF RLe(RNorm(1, 2), newRatio) /\ RLe(newRatio, RInt(3))
                      THEN newRatio ELSE aspectRatio
    /\ UNCHANGED settings
    /\ KeyFrame

\* 'm': the menu opens.
OpenMenu ==
    /\ mpc = "input"
    /\ mpc' = "menu"
    /\ UNCHANGED <<currentFractal, settings, aspectRatio, width, height, scaleX,
                   scaleY, moves, imageWidth, imageHeight, cellX, cellY, liveCx,
                   liveCy, saveCx, saveCy, trap, written>>
    /\ UNCHANGED <<evalVars, quantVars, sideVars>>

\* 'S': imageSave reads the image's width and height and calls the export
\* driver.
ImageSave(iw, ih) ==
    /\ mpc = "input"
    /\ mpc' = "export"
    /\ imageWidth' = iw
    /\ imageHeight' = ih
    /\ UNCHANGED <<currentFractal, settings, aspectRatio, width, height, scaleX,
                   scaleY, moves, cellX, cellY, liveCx, liveCy, saveCx, saveCy, trap,
                   written>>
    /\ UNCHANGED <<evalVars, quantVars, sideVars>>

\* The body of the export drivers' loops for x = c, y = r;
\* image.at<cv::Vec3b>(y, x) = ... ends it.
SaveCell(c, r) ==
    /\ cellX' = c
    /\ cellY' = r
    /\ written' = Append(written, <<c, r>>)
    /\ saveCx' = IF currentFractal \in NewtonKinds
                 THEN NewtonSaveCx(c, width, imageWidth, Current.scale, Current.centerX)
                 ELSE SavePoint(c, imageWidth, ScX(width, Current.scale),
                                Current.centerX)
    /\ saveCy' = IF currentFractal \in NewtonKinds
                 THEN NewtonSaveCy(r, width, imageHeight, imageWidth, Current.scale,
                                   Current.centerY)
                 ELSE SavePoint(r, imageHeight,
                                ScY(width, imageHeight, imageWidth, Current.scale),
                                Current.centerY)

\* What the export drivers leave alone.
SaveFrame ==
    /\ UNCHANGED <<currentFractal, settings, aspectRatio, width, height, scaleX,
                   scaleY, moves, liveCx, liveCy>>
    /\ UNCHANGED <<evalVars, quantVars, sideVars>>

\* saveOtherFractals divides the int width * imageHeight by an imageWidth of
\* 0. Where the division traps the process is killed by the signal; where it
\* yields some int the loops have no cell, imwrite throws on the empty image
\* and nothing catches it. Either way the division was executed and the
\* process ends.
SaveTrap ==
    /\ mpc = "export"
    /\ currentFractal \notin NewtonKinds
    /\ imageWidth = 0
    /\ trap' = TRUE
    /\ mpc' = "stopped"
    /\ UNCHANGED <<imageWidth, imageHeight, cellX, cellY, saveCx, saveCy, written>>
    /\ SaveFrame

\* No cell to loop over: the image is empty, imwrite throws, and nothing
\* catches it.
SaveEmpty ==
    /\ mpc = "export"
    /\ currentFractal \in NewtonKinds \/ imageWidth # 0
    /\ imageWidth = 0 \/ imageHeight = 0
    /\ mpc' = "stopped"
    /\ UNCHANGED <<imageWidth, imageHeight, cellX, cellY, saveCx, saveCy, trap, written>>
    /\ SaveFrame

\* The first cell of the image.
SaveFirst ==
    /\ mpc = "export"
    /\ imageWidth > 0 /\ imageHeight > 0
    /\ mpc' = "save"
    /\ SaveCell(0, 0)
    /\ UNCHANGED <<imageWidth, imageHeight, trap>>
    /\ SaveFrame

\* The next cell, row by row.
SaveNext ==
    /\ mpc = "save"
    /\ ~LastCell(cellX, cellY, imageWidth, imageHeight)
    /\ IF NextColumn(cellX) < imageWidth
       THEN SaveCell(NextColumn(cellX), cellY)
       ELSE SaveCell(0, cellY + 1)
    /\ UNCHANGED <<mpc, imageWidth, imageHeight, trap>>
    /\ SaveFrame

\* The image is written and imageSave returns, its imageWidth and
\* imageHeight with it; a key later the viewer draws its next frame.
SaveDone ==
    /\ mpc = "save"
    /\ LastCell(cellX, cellY, imageWidth, imageHeight)
    /\ mpc' = "frame"
    /\ imageWidth' = 0 /\ imageHeight' = 0
    /\ cellX' = 0 /\ cellY' = 0
    /\ saveCx' = RInt(0) /\ saveCy' = RInt(0)
    /\ written' = <<>>
    /\ UNCHANGED trap
    /\ SaveFrame

NextMap ==
    \/ \E k \in MapKinds : MenuSelect(k)
    \/ \E w \in Sides, h \in Sides : Resize(w, h)
    \/ Quit
    \/ RenderFirst
    \/ RenderNext
    \/ RenderDone
    \/ \E f \in ZoomFactors : Zoom(f)
    \/ \E d \in PanSteps : PanX(d)
    \/ \E d \in PanSteps : PanY(d)
    \/ \E r \in RatiosTyped : SetAspectRatio(r)
    \/ OpenMenu
    \/ \E iw \in ImageSides, ih \in ImageSides : ImageSave(iw, ih)
    \/ SaveTrap
    \/ SaveEmpty
    \/ SaveFirst
    \/ SaveNext
    \/ SaveDone

SpecMap == InitMap /\ [][NextMap]_vars

----------------------------------------------------------------------------
(* Properties of the viewport mapping. The points are the exact values of  *)
(* the drivers' expressions; the rounding of the doubles is left out.      *)

\* saveOtherFractals is at a cell of an image as large as the terminal.
ExportAtLiveSize ==
    /\ mpc = "save"
    /\ currentFractal \notin NewtonKinds
    /\ imageWidth = width
    /\ imageHeight = height

\* The cy that renderOtherFractals computes for the row of the export's cell.
LiveCyOfCell == LivePoint(cellY, height, scaleY, Current.centerY)

AtCentreCell ==
    /\ mpc = "render"
    /\ cellX = width \div 2
    /\ cellY = height \div 2

\* From one cell of a live driver's loops to the next: one column to the
\* right is sx further in cx and leaves cy; the first column of the next row
\* is sy further in cy.
StepsAre(sx, sy) ==
    RenderNext =>
        IF cellY' = cellY
        THEN cellX' = cellX + 1 /\ RSub(liveCx', liveCx) = sx /\ liveCy' = liveCy
        ELSE cellY' = cellY + 1 /\ cellX' = 0 /\ RSub(liveCy', liveCy) = sy

\* C10 as stated: for every raster size, even or odd, every scale and every
\* aspect ratio the live mapper maps the cell (width/2, height/2) to exactly
\* (centerX, centerY); adjacent columns are exactly scale apart and adjacent
\* rows exactly scale * aspectRatio.
CentreCellExact ==
    /\ [](AtCentreCell => liveCx = Current.centerX /\ liveCy = Current.centerY)
    /\ [][StepsAre(Current.scale, RMul(Current.scale, aspectRatio))]_vars

\* The point of the cell size \div 2 of a side of size cells, step apart,
\* around centre: the centre for an even size, half a step before it for an
\* odd one.
CentreOf(size, step, centre) ==
    IF size % 2 = 0 THEN centre ELSE RSub(centre, RMul(step, RNorm(1, 2)))

\* C10, amended: the live mapper maps the cell (width/2, height/2) to
\* exactly centerX when width is even and to centerX - scale/2 when it is
\* odd, and to exactly centerY when height is even and to
\* centerY - scale * aspectRatio / 2 when it is odd; adjacent columns are
\* exactly scale apart and adjacent rows exactly scale * aspectRatio.
CentreCellOnEvenSides ==
    /\ [](AtCentreCell =>
            /\ liveCx = CentreOf(width, Current.scale, Current.centerX)
            /\ liveCy = CentreOf(height, RMul(Current.scale, aspectRatio),
                                 Current.centerY))
    /\ [][StepsAre(Current.scale, RMul(Current.scale, aspectRatio))]_vars

\* The centre cell of an odd-by-even terminal after a zoom or a pan: cx is
\* off the centre, cy on it.
CentreCellOnEvenSidesWitness ==
    /\ AtCentreCell
    /\ width % 2 = 1 /\ height % 2 = 0
    /\ Current # InitialSettings[currentFractal]
    /\ liveCx # Current.centerX
    /\ liveCy = Current.centerY

----------------------------------------------------------------------------
(* Properties of the raster drivers' loops.                                *)

\* The i-th cell of a row-major pass over a raster w cells wide.
RowMajor(i, w) == <<(i - 1) % w, (i - 1) \div w>>

\* The width and the height of the raster the running pass loops over.
PassWidth == IF mpc = "render" THEN width ELSE imageWidth
PassHeight == IF mpc = "render" THEN height ELSE imageHeight

\* A pass is at the cell (cellX, cellY), which is inside the raster, and has
\* written the row-major cells up to it, each once.
RowMajorSoFar ==
    mpc \in {"render", "save"} =>
        /\ cellX \in 0..(PassWidth - 1)
        /\ cellY \in 0..(PassHeight - 1)
        /\ Len(written) = cellY * PassWidth + cellX + 1
        /\ \A i \in 1..Len(written) : written[i] = RowMajor(i, PassWidth)

\* A pass that ends has written as many cells as the raster has.
PassComplete ==
    (mpc \in {"render", "save"} /\ mpc' # mpc) =>
        Len(written) = PassWidth * PassHeight

\* C11: each raster driver (the live and the export driver of the escape-time
\* fractals and of the Newton basins) writes every cell (x, y) with
\* 0 <= x < W and 0 <= y < H exactly once per pass, in row-major order, and
\* writes no cell outside that range.
EveryCellOnce == []RowMajorSoFar /\ [][PassComplete]_vars

\* saveNewtonBasins at the last cell of an image that is not square: all
\* of its cells are written.
EveryCellOnceWitness ==
    /\ mpc = "save"
    /\ currentFractal \in NewtonKinds
    /\ imageWidth # imageHeight
    /\ Len(written) = imageWidth * imageHeight
    /\ written[Len(written)] = <<imageWidth - 1, imageHeight - 1>>

----------------------------------------------------------------------------
(* SpecWorkers: one live pass whose rows are split over workers. Each       *)
(* worker runs the driver's loop body over its own row with its own x, y,  *)
(* cx, cy, iteration or color, and pixel; stdscr is the one window of the  *)
(* process. The workers' statements interleave freely.                     *)

\* The workers, one row of the raster each.
Workers == 2
\* The raster's width.
WorkWidth == 1

WorkerSet == 1..Workers
Cells == (0..(WorkWidth - 1)) \X (0..(Workers - 1))
Drivers == {"renderOtherFractals", "renderNewtonBasins"}

\* Values the evaluators return: iteration counts, and root indices.
Outcomes(d) ==
    IF d = "renderNewtonBasins" THEN <<0, 1, 2>> ELSE <<0, maxiter \div 2, maxiter>>

\* The evaluators' results over the raster, neighbouring cells differing:
\* one assignment for each shift.
Table(d, shift) ==
    [c \in Cells |-> Outcomes(d)[((c[1] + c[2] * WorkWidth + shift) % 3) + 1]]

\* attron(COLOR_PAIR(c)) and attroff(COLOR_PAIR(c)) on a window whose colour
\* pair is a: a pair number above 0 replaces the window's pair, or clears it.
AttrOn(a, c) == IF c > 0 THEN c ELSE a
AttrOff(a, c) == IF c > 0 THEN 0 ELSE a

\* mvaddch's character: '@' in renderNewtonBasins, pixel in
\* renderOtherFractals.
DrawnOff(d, px) == "@"
Drawn(d, px) == IF d = "renderNewtonBasins" THEN "@" ELSE px

\* run() has cleared the screen and called a driver; every worker is at the
\* first cell of its row.
InitWorkers ==
    /\ EvalParked
    /\ QuantParked
    /\ MapParked
    /\ ZoomParked
    /\ FirstParked
    /\ MenuParked
    /\ driver \in Drivers
    /\ \E shift \in 0..2 : results = Table(driver, shift)
    /\ wpc = [w \in WorkerSet |-> "cx"]
    /\ wx = [w \in WorkerSet |-> 0]
    /\ wy = [w \in WorkerSet |-> w - 1]
    /\ wcx = [w \in WorkerSet |-> 0]
    /\ wcy = [w \in WorkerSet |-> 0]
    /\ wresult = [w \in WorkerSet |-> 0]
    /\ wpixel = [w \in WorkerSet |-> " "]
    /\ attrs = 0
    /\ surface = [c \in Cells |-> <<" ", 0>>]

\* What a statement that touches neither stdscr nor the loops leaves alone.
WorkLocal ==
    /\ UNCHANGED <<driver, results, wx, wy, attrs, surface>>
    /\ UNCHANGED <<evalVars, quantVars, mapVars, zoomVars, firstVars, menuVars>>

\* cx = (x - width/2.) * scaleX + settings.centerX
WorkCx(w) ==
    /\ wpc[w] = "cx"
    /\ wcx' = [wcx EXCEPT ![w] = wx[w]]
    /\ wpc' = [wpc EXCEPT ![w] = "cy"]
    /\ UNCHANGED <<wcy, wresult, wpixel>>
    /\ WorkLocal

\* cy = (y - height/2.) * scaleY + settings.centerY
WorkCy(w) ==
    /\ wpc[w] = "cy"
    /\ wcy' = [wcy EXCEPT ![w] = wy[w]]
    /\ wpc' = [wpc EXCEPT ![w] = "call"]
    /\ UNCHANGED <<wcx, wresult, wpixel>>
    /\ WorkLocal

\* The switch: iteration or color = the evaluator's result for (cx, cy).
WorkCall(w) ==
    /\ wpc[w] = "call"
    /\ wresult' = [wresult EXCEPT ![w] = results[<<wcx[w], wcy[w]>>]]
    /\ wpc' = [wpc EXCEPT ![w] =
                  IF driver = "renderNewtonBasins" THEN "attron" ELSE "pixel"]
    /\ UNCHANGED <<wcx, wcy, wpixel>>
    /\ WorkLocal

\* pixel = getPixelChar(iteration)
WorkPixel(w) ==
    /\ wpc[w] = "pixel"
    /\ wpixel' = [wpixel EXCEPT ![w] = getPixelChar(wresult[w])]
    /\ wpc' = [wpc EXCEPT ![w] = "mvaddch"]
    /\ UNCHANGED <<wcx, wcy, wresult>>
    /\ WorkLocal

\* attron(COLOR_PAIR(color))
WorkAttrOn(w) ==
    /\ wpc[w] = "attron"
    /\ attrs' = AttrOn(attrs, wresult[w])
    /\ wpc' = [wpc EXCEPT ![w] = "mvaddch"]
    /\ UNCHANGED <<driver, results, wx, wy, wcx, wcy, wresult, wpixel, surface>>
    /\ UNCHANGED <<evalVars, quantVars, mapVars, zoomVars, firstVars, menuVars>>

\* ++x, and the end of the worker's row.
WorkAdvance(w) ==
    IF NextColumn(wx[w]) < WorkWidth
    THEN /\ wx' = [wx EXCEPT ![w] = NextColumn(wx[w])]
         /\ wpc' = [wpc EXCEPT ![w] = "cx"]
    ELSE /\ wpc' = [wpc EXCEPT ![w] = "done"]
         /\ UNCHANGED wx

\* mvaddch(y, x, ...): the character goes to the cell with the window's
\* attributes; it ends the body in renderOtherFractals.
WorkAddCh(w) ==
    /\ wpc[w] = "mvaddch"
    /\ surface' = [surface EXCEPT ![<<wx[w], wy[w]>>] =
                      <<Drawn(driver, wpixel[w]), attrs>>]
    /\ IF driver = "renderNewtonBasins"
       THEN wpc' = [wpc EXCEPT ![w] = "attroff"] /\ UNCHANGED wx
       ELSE WorkAdvance(w)
    /\ UNCHANGED <<driver, results, wy, wcx, wcy, wresult, wpixel, attrs>>
    /\ UNCHANGED <<evalVars, quantVars, mapVars, zoomVars, firstVars, menuVars>>

\* attroff(COLOR_PAIR(color)), the end of the body in renderNewtonBasins.
WorkAttrOff(w) ==
    /\ wpc[w] = "attroff"
    /\ attrs' = AttrOff(attrs, wresult[w])
    /\ WorkAdvance(w)
    /\ UNCHANGED <<driver, results, wy, wcx, wcy, wresult, wpixel, surface>>
    /\ UNCHANGED <<evalVars, quantVars, mapVars, zoomVars, firstVars, menuVars>>

NextWorkers ==
    \/ \E w \in WorkerSet : WorkCx(w)
    \/ \E w \in WorkerSet : WorkCy(w)
    \/ \E w \in WorkerSet : WorkCall(w)
    \/ \E w \in WorkerSet : WorkPixel(w)
    \/ \E w \in WorkerSet : WorkAttrOn(w)
    \/ \E w \in WorkerSet : WorkAddCh(w)
    \/ \E w \in WorkerSet : WorkAttrOff(w)

SpecWorkers == InitWorkers /\ [][NextWorkers]_vars

----------------------------------------------------------------------------
(* Properties of the workers.                                              *)

\* What the sequential row-major pass leaves in a cell.
Sequential(c) ==
    IF driver = "renderNewtonBasins"
    THEN <<"@", results[c]>>
    ELSE <<getPixelChar(results[c]), 0>>

\* Every worker has finished its row.
AllDone == \A w \in WorkerSet : wpc[w] = "done"

----------------------------------------------------------------------------
(* The zoom keys on the rounded scale. settings.scale is an IEEE double:   *)
(* a product below the normal range is rounded to a subnormal (gradual     *)
(* underflow), to zero only when it is at most half the least subnormal.   *)
(* A subnormal is sgn * man * 2^(ExpMin - 23) with 0 < man < ManMin.       *)

\* a with its significand brought to 24 bits, its exponent lowered to match.
Normal(a) ==
    [a EXCEPT !.man = a.man * 2^(24 - BitLen(a.man)),
              !.exp = a.exp - (24 - BitLen(a.man))]

\* Whether the 48-bit product of two significands has a one below its top
\* 26 bits.
ProductSticky(m, n) ==
    LET mh == m \div HalfWord
        ml == m % HalfWord
        nh == n \div HalfWord
        nl == n % HalfWord
    IN  \/ (mh * nl + ml * nh + ((ml * nl) \div HalfWord)) % 2^10 # 0
        \/ (ml * nl) % HalfWord # 0

\* q / 2^shift, with q followed by a nonzero tail iff sticky, rounded to the
\* nearest integer, ties to even.
Nearest(q, sticky, shift) ==
    IF shift > 30 THEN 0
    ELSE IF \/ q % 2^shift > 2^(shift - 1)
            \/ /\ q % 2^shift = 2^(shift - 1)
               /\ sticky \/ (q \div 2^shift) % 2 = 1
         THEN (q \div 2^shift) + 1
         ELSE q \div 2^shift

\* The evaluators' library: nothing between zero and the least normal.
SettledOff(s, m, e) ==
    IF m < ManMin THEN Zero
    ELSE IF m = ManLim THEN Ranged(s, ManMin, e + 1)
    ELSE Ranged(s, m, e)

\* The double s * m * 2^(e - 23) of a rounded significand m <= ManLim at
\* e >= ExpMin: zero, a subnormal (m < ManMin, e = ExpMin), a normal, or an
\* infinity.
Settled(s, m, e) ==
    IF m = 0 THEN Zero
    ELSE IF m = ManLim THEN Ranged(s, ManMin, e + 1)
    ELSE IF e > ExpMax THEN Ranged(s, ManMin, e)
    ELSE [cls |-> "fin", sgn |-> s, man |-> m, exp |-> e]

\* The double nearest to s * q * 2^x, q the top 26 bits of a product: the
\* result's exponent is that of q's leading bit, or ExpMin if that is below.
Gradual(s, q, sticky, x, e) == Settled(s, Nearest(q, sticky, e - 23 - x), e)

\* a * b in round-to-nearest with gradual underflow.
MulGradual(a, b) ==
    IF IsNaN(a) \/ IsNaN(b) THEN NaN
    ELSE IF IsInf(a) \/ IsInf(b)
         THEN (IF a.sgn * b.sgn = 0 THEN NaN
               ELSE IF a.sgn * b.sgn > 0 THEN PInf ELSE NInf)
    ELSE IF IsZero(a) \/ IsZero(b) THEN Zero
    ELSE Gradual(a.sgn * b.sgn,
                 ManProduct(Normal(a).man, Normal(b).man),
                 ProductSticky(Normal(a).man, Normal(b).man),
                 Normal(a).exp + Normal(b).exp - 24,
                 MaxI(Normal(a).exp + Normal(b).exp
                      + BitLen(ManProduct(Normal(a).man, Normal(b).man)) - 25,
                      ExpMin))

\* The constructor's scale of each fractal.
InitialScale(k) ==
    CASE k \in {"MANDELBROT", "JULIA"} -> Dec(15, 1000)
      [] k = "MANDELBROT_SIN" -> Dec(5, 100)
      [] k = "MANDELBROT_INV" -> Dec(25, 1000)
      [] k = "NEWTON_2" -> Dec(1, 100)
      [] OTHER -> Dec(2, 100)

\* Zoom keys against the first one pressed.
MaxBack == 1

ZoomKeys == {"+", "-"}

\* '+' is scale *= 0.8, '-' is scale *= 1.2.
ZoomFactor(key) == IF key = "+" THEN Dec(8, 10) ELSE Dec(12, 10)

\* The constructor, initialize() and the start of run(): the menu is open.
InitZoom ==
    /\ EvalParked
    /\ QuantParked
    /\ MapParked
    /\ WorkParked
    /\ FirstParked
    /\ MenuParked
    /\ zoomPc = "menu"
    /\ zoomFractal = "MANDELBROT"
    /\ zoomScale = [k \in FractalType |-> InitialScale(k)]
    /\ zoomFirst = ""
    /\ zoomBack = 0

ZoomFrame == UNCHANGED <<evalVars, quantVars, mapVars, workVars, firstVars, menuVars>>

\* selectFractalMenu: the arrows and Enter choose a fractal.
ZoomSelect(k) ==
    /\ zoomPc = "menu"
    /\ zoomFractal' = k
    /\ zoomPc' = "render"
    /\ UNCHANGED <<zoomScale, zoomFirst, zoomBack>>
    /\ ZoomFrame

\* One turn of run()'s loop up to handleInput: clear, the driver's pass,
\* showFractalInfo, refresh.
ZoomRender ==
    /\ zoomPc = "render"
    /\ zoomPc' = "input"
    /\ UNCHANGED <<zoomFractal, zoomScale, zoomFirst, zoomBack>>
    /\ ZoomFrame

\* handleInput, '+' or '-'.
ZoomKey(key) ==
    /\ zoomPc = "input"
    /\ zoomFirst \in {"", key} \/ zoomBack < MaxBack
    /\ zoomFirst' = IF zoomFirst = "" THEN key ELSE zoomFirst
    /\ zoomBack' = IF zoomFirst \in {"", key} THEN zoomBack ELSE zoomBack + 1
    /\ zoomScale' = [zoomScale EXCEPT
                       ![zoomFractal] = MulGradual(zoomScale[zoomFractal],
                                                   ZoomFactor(key))]
    /\ zoomPc' = "render"
    /\ UNCHANGED zoomFractal
    /\ ZoomFrame

\* handleInput, 'm', while every scale is the constructor's.
ZoomMenu ==
    /\ zoomPc = "input"
    /\ zoomFirst = ""
    /\ zoomPc' = "menu"
    /\ UNCHANGED <<zoomFractal, zoomScale, zoomFirst, zoomBack>>
    /\ ZoomFrame

NextZoom ==
    \/ \E k \in FractalType : ZoomSelect(k)
    \/ ZoomRender
    \/ \E key \in ZoomKeys : ZoomKey(key)
    \/ ZoomMenu

\* The viewer with its viewport in exact arithmetic (every key, both
\* drivers' passes), or with its scale rounded (the zoom keys).
InitView == InitMap \/ InitZoom
NextView == NextMap \/ NextZoom
SpecView == InitView /\ [][NextView]_vars

----------------------------------------------------------------------------
(* Properties of the viewport's scale.                                     *)

\* scale > 0, for a double and for an exact scale.
Positive(a) == Lt(Zero, a)
RPositive(r) == r[1] > 0 /\ r[2] > 0

\* Every fractal's scale is above zero.
ScalesPositive ==
    /\ zoomPc # "parked" => \A k \in FractalType : Positive(zoomScale[k])
    /\ \A k \in DOMAIN settings : RPositive(settings[k].scale)

\* The step changes no fractal's viewport, or is handleInput's.
ChangedByInput ==
    /\ settings' # settings => mpc = "input"
    /\ zoomScale' # zoomScale => zoomPc = "input"

\* C13: the scale of every fractal kind's viewport is strictly above zero in
\* every state the keys reach (pan, '+', '-', 'm', 'r', 'c', resize), and a
\* viewport is changed only by handleInput, between two render passes.
ScaleStaysPositive == []ScalesPositive /\ [][ChangedByInput]_vars

\* '+' has brought the scale down to the subnormal that 0.8 and 1.2 both
\* round back to, and '-' has been pressed on it.
ScaleStaysPositiveWitness ==
    /\ zoomPc = "input"
    /\ zoomFirst = "+"
    /\ zoomBack > 0
    /\ zoomScale[zoomFractal] = [cls |-> "fin", sgn |-> 1, man |-> 2, exp |-> ExpMin]

----------------------------------------------------------------------------
(* Properties of imageSave's dimensions.                                   *)

\* C14: for every pair of image dimensions imageSave passes on, 0 for empty
\* or non-numeric text included, saveOtherFractals and saveNewtonBasins
\* compute their scale factors and pixel coordinates without an integer
\* division by zero, and the process goes on.
NoDivisionByZero == ~trap

----------------------------------------------------------------------------
(* SpecFirst: one cell of renderMandelbrot in the first, single-fractal    *)
(* build (src/unnamed/part_000): the inline escape loop on                 *)
(* complex<double>, then getPixelChar.                                     *)

firstMaxiter == 100

\* const char* chars = " .:-=+*#%@"
firstChars == <<" ", ".", ":", "-", "=", "+", "*", "#", "%", "@">>

\* sizeof(chars) is the size of a pointer: 8 on a 64-bit build, 4 on a
\* 32-bit one.
PointerSizes == {4, 8}

\* The points c the loop is run on: multiples of 1/4 up to FirstSpan
\* quarters from the origin.
FirstSpan == 8
FirstCoords == {Dec(k, 4) : k \in -FirstSpan..FirstSpan}

\* abs(z)
FirstAbs(z) == Sqrt(Add(Mul(z[1], z[1]), Mul(z[2], z[2])))

\* z*z + c
FirstSquarePlus(z, c) ==
    <<Add(Sub(Mul(z[1], z[1]), Mul(z[2], z[2])), c[1]),
      Add(Add(Mul(z[1], z[2]), Mul(z[2], z[1])), c[2])>>

\* abs(z) < 2. && iteration <= maxiter
FirstGuard(z, it) == Lt(FirstAbs(z), Whole(2)) /\ it <= firstMaxiter

\* index = (iter * sizeof(chars)) / maxiter
FirstIndex(it, size) == (it * size) \div firstMaxiter

\* index < sizeof(chars) ? chars[index] : chars[sizeof(chars) - 1]
FirstChar(i, size) == IF i < size THEN firstChars[i + 1] ELSE firstChars[size]

\* A cell's c has been computed; z = 0 and iteration = 0.
InitFirst ==
    /\ EvalParked
    /\ QuantParked
    /\ MapParked
    /\ WorkParked
    /\ ZoomParked
    /\ MenuParked
    /\ firstPc = "loop"
    /\ firstC \in FirstCoords \X FirstCoords
    /\ firstZ = <<Zero, Zero>>
    /\ firstIteration = 0
    /\ firstBodies = 0
    /\ firstIndex = 0
    /\ firstPixel = " "
    /\ charsSize \in PointerSizes

FirstFrame == UNCHANGED <<evalVars, quantVars, mapVars, workVars, zoomVars, menuVars>>

\* One pass through the loop's body.
FirstStep ==
    /\ firstPc = "loop"
    /\ FirstGuard(firstZ, firstIteration)
    /\ firstZ' = FirstSquarePlus(firstZ, firstC)
    /\ firstIteration' = firstIteration + 1
    /\ firstBodies' = firstBodies + 1
    /\ UNCHANGED <<firstPc, firstC, firstIndex, firstPixel, charsSize>>
    /\ FirstFrame

\* The loop's condition fails.
FirstExit ==
    /\ firstPc = "loop"
    /\ ~FirstGuard(firstZ, firstIteration)
    /\ firstPc' = "glyph"
    /\ UNCHANGED <<firstC, firstZ, firstIteration, firstBodies, firstIndex, firstPixel,
                   charsSize>>
    /\ FirstFrame

\* pixel = getPixelChar(iteration); mvaddch(y, x, pixel)
FirstGlyph ==
    /\ firstPc = "glyph"
    /\ firstIndex' = FirstIndex(firstIteration, charsSize)
    /\ firstPixel' = FirstChar(FirstIndex(firstIteration, charsSize), charsSize)
    /\ firstPc' = "drawn"
    /\ UNCHANGED <<firstC, firstZ, firstIteration, firstBodies, charsSize>>
    /\ FirstFrame

NextFirst ==
    \/ FirstStep
    \/ FirstExit
    \/ FirstGlyph

SpecFirst == InitFirst /\ [][NextFirst]_vars

----------------------------------------------------------------------------
(* Properties of the first build's cell.                                   *)

\* The count is within the budget, and so is the number of bodies run.
FirstWithinBudget ==
    /\ firstIteration \in 0..firstMaxiter
    /\ firstBodies <= firstMaxiter

\* A step that runs the body starts with |z| < 2 and iteration < maxiter.
FirstBodyGuarded ==
    firstBodies' # firstBodies =>
        Lt(FirstAbs(firstZ), Whole(2)) /\ firstIteration < firstMaxiter

\* C15: the escape loop of renderMandelbrot iterates only while |z| < 2 and
\* iteration < maxiter, so the count handed to getPixelChar is in
\* [0, maxiter] and the body runs at most maxiter times per cell.
FirstCountInBudget == []FirstWithinBudget /\ [][FirstBodyGuarded]_vars

\* C16: getPixelChar's index is always inside the 10-character ramp, and for
\* every iter >= maxiter it returns the ramp's last glyph, '@'.
FirstGlyphOnRamp ==
    firstPc = "drawn" =>
        /\ firstIndex \in 0..(Len(firstChars) - 1)
        /\ firstPixel \in {firstChars[i] : i \in 1..Len(firstChars)}
        /\ firstIteration >= firstMaxiter => firstPixel = firstChars[Len(firstChars)]

----------------------------------------------------------------------------
(* SpecMenu: selectFractalMenu in the two builds of src/main.cpp that have *)
(* a menu, the main one (11 fractals) and the one with 3 fractals, and the *)
(* render pass that indexes fractalSettings with the menu's choice.        *)

Builds == {"main", "three"}

\* FRACTAL_COUNT
FractalCount(b) == IF b = "main" THEN 11 ELSE 3

\* The bits of the smallest bit-field that holds every enumerator of
\* FractalType: the values of the enumeration are those of that bit-field.
EnumBits(b) == IF b = "main" THEN 4 ELSE 2

\* C's a % n for n > 0: the remainder has the sign of a.
CRem(a, n) == IF a >= 0 THEN a % n ELSE -((-a) % n)

\* static_cast<FractalType>(v): v when it is one of the enumeration's
\* values; otherwise the behaviour is undefined, and the object holds the
\* int as it is or only the bits the enumeration has.
EnumCast(v, b) == IF v \in 0..(2^EnumBits(b) - 1) THEN {v} ELSE {v, v % 2^EnumBits(b)}

\* KEY_UP's operand: (selected - 1 + FRACTAL_COUNT) % FRACTAL_COUNT in the
\* main build, (selected - 1) % FRACTAL_COUNT in the build with 3 fractals.
UpValue(b, s) ==
    IF b = "main" THEN CRem(s - 1 + FractalCount(b), FractalCount(b))
    ELSE CRem(s - 1, FractalCount(b))

\* KEY_DOWN's operand: (selected + 1) % FRACTAL_COUNT.
DownValue(b, s) == CRem(s + 1, FractalCount(b))

\* An index of fractalSettings[FRACTAL_COUNT] or fractalNames[FRACTAL_COUNT].
Indexes(b, i) == i \in 0..(FractalCount(b) - 1)

\* The constructor and the start of run(): selectFractalMenu has set
\* selected = currentFractal = MANDELBROT.
InitMenu ==
    /\ EvalParked
    /\ QuantParked
    /\ MapParked
    /\ WorkParked
    /\ ZoomParked
    /\ FirstParked
    /\ build \in Builds
    /\ menuPc = "menu"
    /\ selected = 0
    /\ menuFractal = 0
    /\ menuWidth = MaxSide
    /\ strayed = FALSE

MenuFrame == UNCHANGED <<evalVars, quantVars, mapVars, workVars, zoomVars, firstVars>>

\* case KEY_UP
MenuUp ==
    /\ menuPc = "menu"
    /\ selected' \in EnumCast(UpValue(build, selected), build)
    /\ UNCHANGED <<build, menuPc, menuFractal, menuWidth, strayed>>
    /\ MenuFrame

\* case KEY_DOWN
MenuDown ==
    /\ menuPc = "menu"
    /\ selected' \in EnumCast(DownValue(build, selected), build)
    /\ UNCHANGED <<build, menuPc, menuFractal, menuWidth, strayed>>
    /\ MenuFrame

\* case 10: case 13: currentFractal = selected; menuActive = false
MenuEnter ==
    /\ menuPc = "menu"
    /\ menuFractal' = selected
    /\ menuPc' = "render"
    /\ UNCHANGED <<build, selected, menuWidth, strayed>>
    /\ MenuFrame

\* case '1', '2', '3' of the build with 3 fractals.
MenuDigit(d) ==
    /\ menuPc = "menu"
    /\ build = "three"
    /\ menuFractal' = d - 1
    /\ menuPc' = "render"
    /\ UNCHANGED <<build, selected, menuWidth, strayed>>
    /\ MenuFrame

\* case 'q': running = false; menuActive = false
MenuQuit ==
    /\ menuPc = "menu"
    /\ menuPc' = "stopped"
    /\ UNCHANGED <<build, selected, menuFractal, menuWidth, strayed>>
    /\ MenuFrame

\* case KEY_RESIZE: getmaxyx(stdscr, height, width)
MenuResize(w) ==
    /\ menuPc = "menu"
    /\ menuWidth' = w
    /\ UNCHANGED <<build, menuPc, selected, menuFractal, strayed>>
    /\ MenuFrame

\* The render pass and the status line: fractalSettings[currentFractal],
\* and in the main build fractalNamesSpaces[currentFractal]. An index
\* outside the arrays reads memory that is not theirs: the pass goes on
\* with what it finds there, or the process is killed.
MenuRender ==
    /\ menuPc = "render"
    /\ strayed' = (strayed \/ ~Indexes(build, menuFractal))
    /\ menuPc' \in IF Indexes(build, menuFractal) THEN {"input"} ELSE {"input", "stopped"}
    /\ UNCHANGED <<build, selected, menuFractal, menuWidth>>
    /\ MenuFrame

\* handleInput, 'm': selectFractalMenu starts with selected = currentFractal.
MenuOpen ==
    /\ menuPc = "input"
    /\ selected' = menuFractal
    /\ menuPc' = "menu"
    /\ UNCHANGED <<build, menuFractal, menuWidth, strayed>>
    /\ MenuFrame

NextMenu ==
    \/ MenuUp
    \/ MenuDown
    \/ MenuEnter
    \/ \E d \in 1..3 : MenuDigit(d)
    \/ MenuQuit
    \/ \E w \in Sides : MenuResize(w)
    \/ MenuRender
    \/ MenuOpen

SpecMenu == InitMenu /\ [][NextMenu]_vars

----------------------------------------------------------------------------
(* Properties of the menu.                                                 *)

\* selected and currentFractal index the arrays, and nothing was indexed
\* outside them.
MenuIndexes ==
    menuPc # "parked" =>
        /\ Indexes(build, selected)
        /\ Indexes(build, menuFractal)
        /\ ~strayed

\* KEY_UP on index 0 wraps to FRACTAL_COUNT - 1.
UpWraps == (MenuUp /\ selected = 0) => selected' = FractalCount(build) - 1

\* C17: in both menu builds, after any sequence of KEY_UP, KEY_DOWN, Enter,
\* quick-select digits, resize and 'q' in selectFractalMenu, selected and
\* the committed currentFractal are in [0, FRACTAL_COUNT), so fractalNames[]
\* and fractalSettings[] are never indexed out of bounds, and KEY_UP on
\* index 0 wraps to FRACTAL_COUNT - 1.
MenuIndexInRange == []MenuIndexes /\ [][UpWraps]_vars

----------------------------------------------------------------------------
(* Properties of the two export drivers' mappings.                         *)

\* The point saveOtherFractals computes for the cell the export is at.
OtherExportPoint ==
    <<SavePoint(cellX, imageWidth, ScX(width, Current.scale), Current.centerX),
      SavePoint(cellY, imageHeight, ScY(width, imageHeight, imageWidth, Current.scale),
                Current.centerY)>>

\* The point saveNewtonBasins computes for it.
NewtonExportPoint ==
    <<NewtonSaveCx(cellX, width, imageWidth, Current.scale, Current.centerX),
      NewtonSaveCy(cellY, width, imageHeight, imageWidth, Current.scale,
                   Current.centerY)>>

\* C18: for every terminal width, every image size with imageWidth > 0 and
\* imageHeight > 0, every viewport and every pixel (x, y), saveOtherFractals
\* and saveNewtonBasins compute the same plane point (cx, cy), also when
\* width * imageHeight is not a multiple of imageWidth.
ExportDriversAgree ==
    mpc = "save" =>
        /\ <<saveCx, saveCy>> = OtherExportPoint
        /\ <<saveCx, saveCy>> = NewtonExportPoint

====
